---- MODULE Spec2Model ----
(***************************************************************************)
(* Verification model of the KiCad symbol-library parser                   *)
(* (src/src/symbols.rs, src/src/symbols/property.rs, src/src/symbols/      *)
(* pin.rs): the tokeniser, the expression segmenter, the validity guard    *)
(* and the construct parsers that from_file reaches.                       *)
(*                                                                         *)
(* Text is a sequence of one-character strings; a Rust String is the same  *)
(* sequence.  Every parser is a pure function of its argument, so each     *)
(* specification below draws an argument in Init and has one action that   *)
(* applies the function to it.                                             *)
(***************************************************************************)
EXTENDS Integers, Sequences, FiniteSets, TLC

VARIABLES
    pc,     \* "start" before the call, "done" after it
    arg,    \* the argument of the call
    ret     \* the value the call returned

vars == <<pc, arg, ret>>

(***************************************************************************)
(* String literals of the source, as character sequences.                  *)
(***************************************************************************)
kw ==
    [ kicad_symbol_lib |-> <<"k","i","c","a","d","_","s","y","m","b","o","l","_","l","i","b">>,
      version |-> <<"v","e","r","s","i","o","n">>,
      generator |-> <<"g","e","n","e","r","a","t","o","r">>,
      generator_version |-> <<"g","e","n","e","r","a","t","o","r","_","v","e","r","s","i","o","n">>,
      symbol |-> <<"s","y","m","b","o","l">>,
      pin_names |-> <<"p","i","n","_","n","a","m","e","s">>,
      alternate |-> <<"a","l","t","e","r","n","a","t","e">>,
      exclude_from_sim |-> <<"e","x","c","l","u","d","e","_","f","r","o","m","_","s","i","m">>,
      in_bom |-> <<"i","n","_","b","o","m">>,
      on_board |-> <<"o","n","_","b","o","a","r","d">>,
      property |-> <<"p","r","o","p","e","r","t","y">>,
      id |-> <<"i","d">>,
      at |-> <<"a","t">>,
      effects |-> <<"e","f","f","e","c","t","s">>,
      font |-> <<"f","o","n","t">>,
      size |-> <<"s","i","z","e">>,
      bold |-> <<"b","o","l","d">>,
      italic |-> <<"i","t","a","l","i","c">>,
      subscript |-> <<"s","u","b","s","c","r","i","p","t">>,
      superscript |-> <<"s","u","p","e","r","s","c","r","i","p","t">>,
      overbar |-> <<"o","v","e","r","b","a","r">>,
      underline |-> <<"u","n","d","e","r","l","i","n","e">>,
      justify |-> <<"j","u","s","t","i","f","y">>,
      hide |-> <<"h","i","d","e">>,
      bottom |-> <<"b","o","t","t","o","m">>,
      top |-> <<"t","o","p">>,
      left |-> <<"l","e","f","t">>,
      right |-> <<"r","i","g","h","t">>,
      offset |-> <<"o","f","f","s","e","t">>,
      yes |-> <<"y","e","s">>,
      no |-> <<"n","o">>,
      width |-> <<"w","i","d","t","h">>,
      type |-> <<"t","y","p","e">>,
      default |-> <<"d","e","f","a","u","l","t">>,
      background |-> <<"b","a","c","k","g","r","o","u","n","d">>,
      outline |-> <<"o","u","t","l","i","n","e">>,
      none |-> <<"n","o","n","e">>,
      pts |-> <<"p","t","s">>,
      xy |-> <<"x","y">>,
      polyline |-> <<"p","o","l","y","l","i","n","e">>,
      stroke |-> <<"s","t","r","o","k","e">>,
      fill |-> <<"f","i","l","l">>,
      text |-> <<"t","e","x","t">>,
      pin |-> <<"p","i","n">>,
      name |-> <<"n","a","m","e">>,
      number |-> <<"n","u","m","b","e","r">>,
      length |-> <<"l","e","n","g","t","h">>,
      passive |-> <<"p","a","s","s","i","v","e">>,
      power_in |-> <<"p","o","w","e","r","_","i","n">>,
      power_out |-> <<"p","o","w","e","r","_","o","u","t">>,
      input |-> <<"i","n","p","u","t">>,
      unspecified |-> <<"u","n","s","p","e","c","i","f","i","e","d">>,
      line |-> <<"l","i","n","e">>,
      inverted |-> <<"i","n","v","e","r","t","e","d">>,
      Reference |-> <<"R","e","f","e","r","e","n","c","e">>,
      Value |-> <<"V","a","l","u","e">>,
      Footprint |-> <<"F","o","o","t","p","r","i","n","t">>,
      Datasheet |-> <<"D","a","t","a","s","h","e","e","t">>,
      Description |-> <<"D","e","s","c","r","i","p","t","i","o","n">>,
      ki_locked |-> <<"k","i","_","l","o","c","k","e","d">>,
      ki_keywords |-> <<"k","i","_","k","e","y","w","o","r","d","s">>,
      ki_fp_filters |-> <<"k","i","_","f","p","_","f","i","l","t","e","r","s">>,
      PARTREV |-> <<"P","A","R","T","R","E","V">>,
      STANDARD |-> <<"S","T","A","N","D","A","R","D">>,
      MAXIMUM_PACKAGE_HEIGHT |-> <<"M","A","X","I","M","U","M","_","P","A","C","K","A","G","E","_","H",
          "E","I","G","H","T">>,
      MANUFACTURER |-> <<"M","A","N","U","F","A","C","T","U","R","E","R">> ]

msg ==
    [ lib_property |-> <<"N","o","t"," ","a"," ","v","a","l","i","d"," ","K","i","C","a","d"," ","s","y",
          "m","b","o","l"," ","l","i","b","r","a","r","y"," ","p","r","o","p","e","r","t","y",":"," ">>,
      param_four_entries |-> <<"V","e","r","s","i","o","n"," ","e","x","p","r","e","s","s","i","o","n",
          " ","d","o","e","s"," ","n","o","t"," ","c","o","n","t","a","i","n"," ","f","o","u","r"," ","e",
          "n","t","r","i","e","s">>,
      param_no_open |-> <<"V","e","r","s","i","o","n"," ","e","x","p","r","e","s","s","i","o","n"," ","d",
          "o","e","s"," ","n","o","t"," ","s","t","a","r","t"," ","w","i","t","h"," ","o","p","e","n","i",
          "n","g"," ","p","a","r","e","n","t","h","e","s","e","s">>,
      param_not_contain |-> <<"E","x","p","r","e","s","s","i","o","n"," ","d","o","e","s"," ","n","o","t",
          " ","c","o","n","t","a","i","n"," ","'">>,
      param_no_value |-> <<"N","o"," ","v","e","r","s","i","o","n"," ","f","o","u","n","d">>,
      param_parse |-> <<"C","o","u","l","d"," ","n","o","t"," ","p","a","r","s","e"," ","v","a","l","u",
          "e",":"," ">>,
      id_four_entries |-> <<"P","r","o","p","e","r","t","y"," ","I","D"," ","e","x","p","r","e","s","s",
          "i","o","n"," ","s","h","o","u","l","d"," ","h","a","v","e"," ","f","o","u","r"," ","e","n","t",
          "r","i","e","s",":"," ">>,
      id_no_id |-> <<"P","r","o","p","e","r","t","y"," ","I","D"," ","d","o","e","s"," ","n","o","t"," ",
          "c","o","n","t","a","i","n"," ","i","d",":"," ">>,
      property_no_type |-> <<"P","r","o","p","e","r","t","y"," ","d","o","e","s"," ","n","o","t"," ","c",
          "o","n","t","a","i","n"," ","t","y","p","e">>,
      property_no_value |-> <<"P","r","o","p","e","r","t","y"," ","d","o","e","s"," ","n","o","t"," ","c",
          "o","n","t","a","i","n"," ","v","a","l","u","e">>,
      variant_not_found |-> <<"M","a","t","c","h","i","n","g"," ","v","a","r","i","a","n","t"," ","n","o",
          "t"," ","f","o","u","n","d">>,
      property_child |-> <<"N","o","t"," ","a"," ","v","a","l","i","d"," ","K","i","C","a","d"," ","p",
          "r","o","p","e","r","t","y",":"," ">>,
      location_five_entries |-> <<"L","o","c","a","t","i","o","n"," ","e","x","p","r","e","s","s","i","o",
          "n"," ","s","h","o","u","l","d"," ","h","a","v","e"," ","f","i","v","e"," ","e","n","t","r","i",
          "e","s",":"," ">>,
      location_no_x |-> <<"L","o","c","a","t","i","o","n"," ","d","o","e","s"," ","n","o","t"," ","c","o",
          "n","t","a","i","n"," ","x">>,
      location_no_y |-> <<"L","o","c","a","t","i","o","n"," ","d","o","e","s"," ","n","o","t"," ","c","o",
          "n","t","a","i","n"," ","y">>,
      location_no_z |-> <<"L","o","c","a","t","i","o","n"," ","d","o","e","s"," ","n","o","t"," ","c","o",
          "n","t","a","i","n"," ","z">>,
      font_size_entries |-> <<"F","o","n","t"," ","s","i","z","e"," ","e","x","p","r","e","s","s","i","o",
          "n"," ","s","h","o","u","l","d"," ","h","a","v","e"," ","f","o","u","r"," ","e","n","t","r","i",
          "e","s",":"," ">>,
      font_size_no_width |-> <<"F","o","n","t"," ","s","i","z","e"," ","d","o","e","s"," ","n","o","t",
          " ","c","o","n","t","a","i","n"," ","w","i","d","t","h">>,
      font_size_no_height |-> <<"F","o","n","t"," ","s","i","z","e"," ","d","o","e","s"," ","n","o","t",
          " ","c","o","n","t","a","i","n"," ","h","e","i","g","h","t">>,
      font_child |-> <<"N","o","t"," ","a"," ","v","a","l","i","d"," ","K","i","C","a","d"," ","f","o",
          "n","t"," ","p","r","o","p","e","r","t","y",":"," ">>,
      justify_no_value |-> <<"J","u","s","t","i","f","y"," ","d","o","e","s"," ","n","o","t"," ","c","o",
          "n","t","a","i","n"," ","v","a","l","u","e">>,
      justify_value |-> <<"N","o","t"," ","a"," ","v","a","l","i","d"," ","K","i","C","a","d"," ","e","f",
          "f","e","c","t","s"," ","j","u","s","t","i","f","y"," ","v","a","l","u","e",":"," ">>,
      effects_child |-> <<"N","o","t"," ","a"," ","v","a","l","i","d"," ","K","i","C","a","d"," ","e","f",
          "f","e","c","t","s"," ","p","r","o","p","e","r","t","y",":"," ">>,
      bool_value |-> <<"B","o","o","l","e","a","n"," ","v","a","l","u","e"," ","n","o","t"," ","y","e",
          "s"," ","o","r"," ","n","o",":"," ">>,
      single_not_word |-> <<"E","x","p","r","e","s","s","i","o","n","'","s"," ","s","e","c","o","n","d",
          " ","T","o","k","e","n"," ","i","s"," ","n","o","t"," ","a"," ","w","o","r","d",":"," ">>,
      single_no_value |-> <<"C","o","u","l","d"," ","n","o","t"," ","g","e","t"," ","e","x","p","r","e",
          "s","s","i","o","n"," ","s","e","c","o","n","d"," ","v","a","l","u","e">>,
      single_value_not_word |-> <<"E","x","p","r","e","s","s","i","o","n","'","s"," ","s","e","c","o","n",
          "d"," ","v","a","l","u","e"," ","n","o","t"," ","a"," ","w","o","r","d">>,
      single_option |-> <<"N","o","t"," ","a"," ","v","a","l","i","d"," ","o","p","t","i","o","n"," ","f",
          "o","r"," ","K","i","C","a","d","S","i","n","g","l","e","V","a","l","u","e","P","r","o","p","e",
          "r","t","y",":"," ">>,
      offset_no_value |-> <<"O","f","f","s","e","t"," ","d","o","e","s"," ","n","o","t"," ","c","o","n",
          "t","a","i","n"," ","v","a","l","u","e">>,
      not_implemented |-> <<"n","o","t"," ","i","m","p","l","e","m","e","n","t","e","d">>,
      stroke_type |-> <<"N","o","t"," ","a"," ","v","a","l","i","d"," ","K","i","C","a","d"," ","s","t",
          "r","o","k","e"," ","t","y","p","e",":"," ">>,
      stroke_no_width |-> <<"S","t","r","o","k","e"," ","d","o","e","s"," ","n","o","t"," ","c","o","n",
          "t","a","i","n"," ","w","i","d","t","h">>,
      stroke_no_type |-> <<"S","t","r","o","k","e"," ","d","o","e","s"," ","n","o","t"," ","c","o","n",
          "t","a","i","n"," ","t","y","p","e">>,
      stroke_child |-> <<"N","o","t"," ","a"," ","v","a","l","i","d"," ","K","i","C","a","d"," ","s","t",
          "r","o","k","e"," ","p","r","o","p","e","r","t","y",":"," ">>,
      fill_type |-> <<"N","o","t"," ","a"," ","v","a","l","i","d"," ","K","i","C","a","d"," ","f","i","l",
          "l"," ","t","y","p","e",":"," ">>,
      fill_no_type |-> <<"F","i","l","l"," ","d","o","e","s"," ","n","o","t"," ","c","o","n","t","a","i",
          "n"," ","t","y","p","e">>,
      fill_child |-> <<"N","o","t"," ","a"," ","v","a","l","i","d"," ","K","i","C","a","d"," ","f","i",
          "l","l"," ","p","r","o","p","e","r","t","y",":"," ">>,
      pts_no_x |-> <<"P","o","l","y","l","i","n","e"," ","d","o","e","s"," ","n","o","t"," ","c","o","n",
          "t","a","i","n"," ","x">>,
      pts_no_y |-> <<"P","o","l","y","l","i","n","e"," ","d","o","e","s"," ","n","o","t"," ","c","o","n",
          "t","a","i","n"," ","y">>,
      pts_child |-> <<"N","o","t"," ","a"," ","v","a","l","i","d"," ","K","i","C","a","d"," ","p","o","l",
          "y","l","i","n","e"," ","p","t","s"," ","p","r","o","p","e","r","t","y",":"," ">>,
      polyline_child |-> <<"N","o","t"," ","a"," ","v","a","l","i","d"," ","K","i","C","a","d"," ","p",
          "o","l","y","l","i","n","e"," ","p","r","o","p","e","r","t","y",":"," ">>,
      text_no_text |-> <<"T","e","x","t"," ","d","o","e","s"," ","n","o","t"," ","c","o","n","t","a","i",
          "n"," ","t","e","x","t">>,
      text_child |-> <<"N","o","t"," ","a"," ","v","a","l","i","d"," ","K","i","C","a","d"," ","t","e",
          "x","t"," ","p","r","o","p","e","r","t","y",":"," ">>,
      text_no_location |-> <<"T","e","x","t"," ","d","o","e","s"," ","n","o","t"," ","c","o","n","t","a",
          "i","n"," ","l","o","c","a","t","i","o","n">>,
      smaller_than_two |-> <<"E","x","p","r","e","s","s","i","o","n"," ","s","m","a","l","l","e","r"," ",
          "t","h","a","n"," ","t","w","o",":"," ">>,
      not_valid_symbol |-> <<"N","o","t"," ","a"," ","v","a","l","i","d"," ","K","i","C","a","d"," ","s",
          "y","m","b","o","l",":"," ">>,
      no_open_paren |-> <<"E","x","p","r","e","s","s","i","o","n"," ","d","o","e","s"," ","n","o","t"," ",
          "s","t","a","r","t"," ","w","i","t","h"," ","o","p","e","n","i","n","g"," ","p","a","r","e","n",
          "t","h","e","s","i","s">>,
      symbol_no_name |-> <<"S","y","m","b","o","l"," ","h","a","s"," ","n","o"," ","n","a","m","e">>,
      symbol_child |-> <<"N","o","t"," ","a"," ","v","a","l","i","d"," ","K","i","C","a","d"," ","s","y",
          "m","b","o","l"," ","p","r","o","p","e","r","t","y",":"," ">>,
      sub_symbol_child |-> <<"N","o","t"," ","a"," ","v","a","l","i","d"," ","K","i","C","a","d"," ","s",
          "u","b"," ","s","y","m","b","o","l"," ","p","r","o","p","e","r","t","y",":"," ">>,
      pin_name_missing |-> <<"N","o"," ","p","i","n"," ","n","a","m","e"," ","f","o","u","n","d">>,
      pin_name_child |-> <<"N","o","t"," ","a"," ","v","a","l","i","d"," ","K","i","C","a","d"," ","p",
          "i","n"," ","n","a","m","e"," ","p","r","o","p","e","r","t","y",":"," ">>,
      pin_number_missing |-> <<"N","o"," ","p","i","n"," ","n","u","m","b","e","r"," ","f","o","u","n","d">>,
      pin_number_child |-> <<"N","o","t"," ","a"," ","v","a","l","i","d"," ","K","i","C","a","d"," ","p",
          "i","n"," ","n","u","m","b","e","r"," ","p","r","o","p","e","r","t","y",":"," ">>,
      pin_type |-> <<"N","o","t"," ","a"," ","v","a","l","i","d"," ","K","i","C","a","d"," ","p","i","n",
          " ","t","y","p","e",":"," ">>,
      pin_polarity |-> <<"N","o","t"," ","a"," ","v","a","l","i","d"," ","K","i","C","a","d"," ","p","i",
          "n"," ","p","o","l","a","r","i","t","y">>,
      pin_length_missing |-> <<"N","o"," ","p","i","n"," ","l","e","n","g","t","h"," ","f","o","u","n","d">>,
      pin_type_missing |-> <<"N","o"," ","p","i","n"," ","t","y","p","e"," ","f","o","u","n","d">>,
      pin_polarity_missing |-> <<"N","o"," ","p","i","n"," ","p","o","l","a","r","i","t","y"," ","f","o",
          "u","n","d">>,
      int_empty |-> <<"c","a","n","n","o","t"," ","p","a","r","s","e"," ","i","n","t","e","g","e","r"," ",
          "f","r","o","m"," ","e","m","p","t","y"," ","s","t","r","i","n","g">>,
      int_invalid_digit |-> <<"i","n","v","a","l","i","d"," ","d","i","g","i","t"," ","f","o","u","n","d",
          " ","i","n"," ","s","t","r","i","n","g">>,
      int_overflow |-> <<"n","u","m","b","e","r"," ","t","o","o"," ","l","a","r","g","e"," ","t","o"," ",
          "f","i","t"," ","i","n"," ","t","a","r","g","e","t"," ","t","y","p","e">>,
      float_empty |-> <<"c","a","n","n","o","t"," ","p","a","r","s","e"," ","f","l","o","a","t"," ","f",
          "r","o","m"," ","e","m","p","t","y"," ","s","t","r","i","n","g">>,
      float_invalid |-> <<"i","n","v","a","l","i","d"," ","f","l","o","a","t"," ","l","i","t","e","r","a",
          "l">>,
      index_out_of_bounds |-> <<"i","n","d","e","x"," ","o","u","t"," ","o","f"," ","b","o","u","n","d",
          "s">> ]

(***************************************************************************)
(* Result<T, anyhow::Error>.  st is "Ok", "Err" (an error value returned   *)
(* to the caller) or "Panic" (the thread unwinds: unimplemented!() and     *)
(* out-of-range indexing).  err is the error's Display text.  log is the   *)
(* sequence of construct-parser calls and returns made while computing     *)
(* the result, in program order.                                           *)
(***************************************************************************)
Ok(v) == [st |-> "Ok", val |-> v, err |-> <<>>, log |-> <<>>]

Err(m) == [st |-> "Err", val |-> <<>>, err |-> m, log |-> <<>>]

Panic(m) == [st |-> "Panic", val |-> <<>>, err |-> m, log |-> <<>>]

NoRet == [st |-> "None", val |-> <<>>, err |-> <<>>, log |-> <<>>]

None == [some |-> FALSE, v |-> <<>>]

Some(x) == [some |-> TRUE, v |-> x]

(***************************************************************************)
(* enum Token                                                              *)
(***************************************************************************)
OpenParen == [type |-> "OpenParen", word |-> <<>>]

CloseParen == [type |-> "CloseParen", word |-> <<>>]

Word(w) == [type |-> "Word", word |-> w]

IsWord(token) == token.type = "Word"

\* expression.get(i) of the source is 0-based; get(expression, i) takes the
\* same 0-based index.
get(expression, i) == IF i + 1 <= Len(expression) THEN Some(expression[i + 1]) ELSE None

\* `if let Some(_) = expression.get(i)`: any token will do
get_is_word_mut(expression, i) == i + 1 <= Len(expression)

\* `if let Some(Word(w)) = expression.get(i)`
get_is_word(expression, i) == i + 1 <= Len(expression) /\ IsWord(expression[i + 1])

\* expression[from..expression.len()].to_owned(), 0-based from
slice_from(expression, from) == SubSeq(expression, from + 1, Len(expression))

(***************************************************************************)
(* tokenise                                                                *)
(***************************************************************************)
is_whitespace(c) == c \in {" ", "\t", "\n", "\r"}

bare_word_stop_mut(c) == c \in {" ", "\t", "\n", "\r", "("}

\* the break condition of the bare-word loop
bare_word_stop(c) == c \in {" ", "\t", "\n", "\r", "(", ")"}

RECURSIVE tokenise_quoted(_, _, _)
\* the loop reading a quoted word; i is the next character to read
tokenise_quoted(input, i, word) ==
    IF i > Len(input) THEN [word |-> word, next |-> i]
    ELSE IF input[i] = "\"" THEN [word |-> word, next |-> i + 1]
    ELSE tokenise_quoted(input, i + 1, Append(word, input[i]))

RECURSIVE tokenise_bare(_, _, _)
\* the loop reading a bare word
tokenise_bare(input, i, word) ==
    IF i > Len(input) THEN [word |-> word, next |-> i]
    ELSE IF bare_word_stop(input[i]) THEN [word |-> word, next |-> i]
    ELSE tokenise_bare(input, i + 1, Append(word, input[i]))

\* one turn of `while let Some(&c) = chars.peek()`: l.i is the next character
\* to read, l.tokens the vector built so far; after the last character the
\* loop has ended and a turn changes nothing
tokenise_loop(input, l) ==
    IF l.i > Len(input) THEN l
    ELSE LET c == input[l.i] IN
         CASE c = "(" -> [i |-> l.i + 1, tokens |-> Append(l.tokens, OpenParen)]
           [] c = ")" -> [i |-> l.i + 1, tokens |-> Append(l.tokens, CloseParen)]
           [] is_whitespace(c) -> [i |-> l.i + 1, tokens |-> l.tokens]
           [] c = "\"" ->
                LET q == tokenise_quoted(input, l.i + 1, <<>>)
                IN  [i |-> q.next, tokens |-> Append(l.tokens, Word(q.word))]
           [] OTHER ->
                LET b == tokenise_bare(input, l.i, <<>>)
                IN  [i |-> b.next, tokens |-> Append(l.tokens, Word(b.word))]

RECURSIVE tokenise_turns(_, _, _)
\* n turns of the loop, the first half of them before the second
tokenise_turns(input, l, n) ==
    IF n = 0 THEN l
    ELSE IF n = 1 THEN tokenise_loop(input, l)
    ELSE LET half == tokenise_turns(input, l, n \div 2)
         IN  IF half.i > Len(input) THEN half
             ELSE tokenise_turns(input, half, n - (n \div 2))

\* every turn reads at least one character, so Len(input) turns end the loop
tokenise(input) == Ok(tokenise_turns(input, [i |-> 1, tokens |-> <<>>], Len(input)).tokens)

(***************************************************************************)
(* subdivide_expression                                                    *)
(***************************************************************************)
emits_symbol_mut(open_count) == open_count = 0

\* `if open_count == 1`: the close marker that ends a top-level form
emits_symbol(open_count) == open_count = 1

\* one turn of `while let Some(token) = tokens_peekable.peek()`: l.i is the
\* next token to read; after the last token a turn changes nothing.
\* open_count is an i32; it stays within the number of tokens, far from the
\* width, so it is an unbounded integer here.
subdivide_loop(expression, l) ==
    IF l.i > Len(expression) THEN l
    ELSE LET token == expression[l.i] IN
         CASE token.type = "OpenParen" ->
                [l EXCEPT !.i = @ + 1, !.current_symbol = Append(@, token),
                          !.open_count = @ + 1]
           [] token.type = "CloseParen" ->
                IF emits_symbol(l.open_count)
                THEN [l EXCEPT !.i = @ + 1,
                               !.symbols_vec = Append(@, Append(l.current_symbol, token)),
                               !.current_symbol = <<>>, !.open_count = @ - 1]
                ELSE [l EXCEPT !.i = @ + 1, !.current_symbol = Append(@, token),
                               !.open_count = @ - 1]
           [] OTHER ->
                [l EXCEPT !.i = @ + 1, !.current_symbol = Append(@, token)]

RECURSIVE subdivide_turns(_, _, _)
\* n turns of the loop, the first half of them before the second
subdivide_turns(expression, l, n) ==
    IF n = 0 THEN l
    ELSE IF n = 1 THEN subdivide_loop(expression, l)
    ELSE LET half == subdivide_turns(expression, l, n \div 2)
         IN  IF half.i > Len(expression) THEN half
             ELSE subdivide_turns(expression, half, n - (n \div 2))

\* every turn reads one token, so Len(expression) turns end the loop
subdivide_expression(expression) ==
    subdivide_turns(expression,
                    [i |-> 1, symbols_vec |-> <<>>, current_symbol |-> <<>>, open_count |-> 0],
                    Len(expression)).symbols_vec

\* check_token_vec_healthy: as many open markers as close markers
check_token_vec_healthy(tokens) ==
    Cardinality({i \in 1..Len(tokens) : tokens[i] = OpenParen})
        = Cardinality({i \in 1..Len(tokens) : tokens[i] = CloseParen})

(***************************************************************************)
(* Debug formatting of an expression, `{expression:?}`:                    *)
(* [OpenParen, Word("a"), CloseParen]                                      *)
(***************************************************************************)
RECURSIVE debug_str(_)
\* <str as Debug>: the characters, with ", \ and the control characters escaped
debug_str(w) ==
    IF w = <<>> THEN <<>>
    ELSE LET c == Head(w)
             e == CASE c = "\"" -> <<"\\", "\"">>
                    [] c = "\\" -> <<"\\", "\\">>
                    [] c = "\n" -> <<"\\", "n">>
                    [] c = "\t" -> <<"\\", "t">>
                    [] c = "\r" -> <<"\\", "r">>
                    [] OTHER -> <<c>>
         IN  e \o debug_str(Tail(w))

debug_token(token) ==
    CASE token.type = "OpenParen" -> <<"O", "p", "e", "n", "P", "a", "r", "e", "n">>
      [] token.type = "CloseParen" -> <<"C", "l", "o", "s", "e", "P", "a", "r", "e", "n">>
      [] OTHER -> <<"W", "o", "r", "d", "(", "\"">> \o debug_str(token.word) \o <<"\"", ")">>

RECURSIVE debug_tokens(_)
debug_tokens(expression) ==
    IF expression = <<>> THEN <<>>
    ELSE IF Len(expression) = 1 THEN debug_token(expression[1])
    ELSE debug_token(expression[1]) \o <<",", " ">> \o debug_tokens(Tail(expression))

debug_expression(expression) == <<"[">> \o debug_tokens(expression) \o <<"]">>

(***************************************************************************)
(* check_expression_validity                                               *)
(***************************************************************************)
opens_with_keyword_mut(expression, property) == get(expression, 1) = Some(Word(property))

\* `expression.first() == Some(&OpenParen) && expression.get(1) == Some(&Word(property))`
opens_with_keyword(expression, property) ==
    get(expression, 0) = Some(OpenParen) /\ get(expression, 1) = Some(Word(property))

check_expression_validity(expression, property) ==
    IF Len(expression) < 2
    THEN Err(msg.smaller_than_two \o debug_expression(expression))
    ELSE IF ~opens_with_keyword(expression, property)
    THEN Err(msg.not_valid_symbol \o debug_expression(expression))
    ELSE Ok(<<>>)

\* get_expression_first_value
get_expression_first_value(expression) ==
    IF Len(expression) < 2
    THEN Err(msg.smaller_than_two \o debug_expression(expression))
    ELSE IF get(expression, 0) # Some(OpenParen)
    THEN Err(msg.no_open_paren)
    ELSE Ok(expression[2])

(***************************************************************************)
(* The `?` operator and the call log.                                      *)
(***************************************************************************)
\* a construct parser's result with its call and its return added to the log
Traced(fn, r) ==
    [r EXCEPT !.log = <<[ev |-> "call", fn |-> fn, st |-> "-"]>> \o @
                          \o <<[ev |-> "ret", fn |-> fn, st |-> r.st]>>]

\* a loop that swallowed the failure of r and returned what it had built
Abort_mut(acc, r) == [acc EXCEPT !.log = @ \o r.log]

\* `r?` failing inside a dispatch loop whose state is acc: the loop's parser
\* returns r's error (or keeps unwinding r's panic) at once
Abort(acc, r) == [r EXCEPT !.log = acc.log \o @]

\* `bail!(m)` inside a dispatch loop whose state is acc
Bail(acc, m) == Abort(acc, Err(m))

\* a field keeps its first value: nothing is stored once the loop has
\* called the same parser before
Put_mut(acc, r, f, v) ==
    IF \E k \in 1..Len(acc.log) : acc.log[k] = r.log[1]
    THEN [acc EXCEPT !.log = @ \o r.log]
    ELSE [acc EXCEPT !.val[f] = v, !.log = @ \o r.log]

\* the callee returned Ok(r.val): store v in field f and go on
Put(acc, r, f, v) == [acc EXCEPT !.val[f] = v, !.log = @ \o r.log]

\* `let x = r?;` inside a dispatch loop whose state is acc, Then(x) being the
\* code after it
Step(acc, r, Then(_)) == IF r.st # "Ok" THEN Abort(acc, r) ELSE Then(r)

\* `let x = r?;` before any loop, Then(x) being the code after it
Try(r, Then(_)) == IF r.st # "Ok" THEN r ELSE Then(r)

\* `r.map_err(|err| anyhow!("{prefix}{err}"))`
map_err(r, prefix) == IF r.st = "Ok" THEN r ELSE Err(prefix \o r.err)

(***************************************************************************)
(* FromStr for the scalar types.  An integer's value is its canonical      *)
(* decimal numeral (no sign, no leading zeros), which carries u64 and u32  *)
(* exactly.  A float's value is the decimal number written: sign,          *)
(* significant digits and power of ten; rounding to the nearest f32 is not *)
(* modelled, so two numerals are the same value here only when they denote *)
(* the same real number.                                                   *)
(***************************************************************************)
DigitChars == {"0", "1", "2", "3", "4", "5", "6", "7", "8", "9"}

DigitValue ==
    ("0" :> 0) @@ ("1" :> 1) @@ ("2" :> 2) @@ ("3" :> 3) @@ ("4" :> 4) @@
    ("5" :> 5) @@ ("6" :> 6) @@ ("7" :> 7) @@ ("8" :> 8) @@ ("9" :> 9)

RECURSIVE strip_leading_zeros(_)
strip_leading_zeros(d) ==
    IF d # <<>> /\ Head(d) = "0" THEN strip_leading_zeros(Tail(d)) ELSE d

RECURSIVE strip_trailing_zeros(_)
strip_trailing_zeros(d) ==
    IF d # <<>> /\ d[Len(d)] = "0" THEN strip_trailing_zeros(SubSeq(d, 1, Len(d) - 1)) ELSE d

\* a < b for canonical numerals
numeral_less(a, b) ==
    \/ Len(a) < Len(b)
    \/ /\ Len(a) = Len(b)
       /\ \E i \in 1..Len(a) :
              /\ DigitValue[a[i]] < DigitValue[b[i]]
              /\ \A j \in 1..(i - 1) : a[j] = b[j]

U64_MAX == <<"1","8","4","4","6","7","4","4","0","7","3","7","0","9","5","5","1","6","1","5">>

U32_MAX == <<"4","2","9","4","9","6","7","2","9","5">>

RECURSIVE parse_unsigned_digits(_, _, _, _)
\* the digit loop of <uN as FromStr>: an invalid digit or an overflow ends it
parse_unsigned_digits(digits, i, acc, max) ==
    IF i > Len(digits) THEN Ok(IF acc = <<>> THEN <<"0">> ELSE acc)
    ELSE IF digits[i] \notin DigitChars THEN Err(msg.int_invalid_digit)
    ELSE LET next == strip_leading_zeros(Append(acc, digits[i]))
         IN  IF numeral_less(max, next) THEN Err(msg.int_overflow)
             ELSE parse_unsigned_digits(digits, i + 1, next, max)

parse_unsigned(src, max) ==
    IF src = <<>> THEN Err(msg.int_empty)
    ELSE IF Len(src) = 1 /\ src[1] \in {"+", "-"} THEN Err(msg.int_invalid_digit)
    ELSE IF src[1] = "+" THEN parse_unsigned_digits(Tail(src), 1, <<>>, max)
    ELSE parse_unsigned_digits(src, 1, <<>>, max)

\* value.parse::<u64>()
parse_u64(src) == parse_unsigned(src, U64_MAX)

\* value.parse::<u32>()
parse_u32(src) == parse_unsigned(src, U32_MAX)

Upper == <<"A","B","C","D","E","F","G","H","I","J","K","L","M",
           "N","O","P","Q","R","S","T","U","V","W","X","Y","Z">>

Lower == <<"a","b","c","d","e","f","g","h","i","j","k","l","m",
           "n","o","p","q","r","s","t","u","v","w","x","y","z">>

\* str::to_lowercase on ASCII text
to_lowercase(s) ==
    [i \in 1..Len(s) |->
        IF \E k \in 1..26 : Upper[k] = s[i]
        THEN Lower[CHOOSE k \in 1..26 : Upper[k] = s[i]]
        ELSE s[i]]

\* the length of the longest prefix of s made of digits
digit_run(s) ==
    IF \E i \in 1..Len(s) : s[i] \notin DigitChars
    THEN (CHOOSE i \in 1..Len(s) :
              s[i] \notin DigitChars /\ \A j \in 1..(i - 1) : s[j] \in DigitChars) - 1
    ELSE Len(s)

RECURSIVE numeral_value(_)
\* the integer a short digit sequence denotes
numeral_value(d) ==
    IF d = <<>> THEN 0 ELSE 10 * numeral_value(SubSeq(d, 1, Len(d) - 1)) + DigitValue[d[Len(d)]]

\* the decimal number int_part.frac_part * 10^exp, in canonical form
decimal(neg, int_part, frac_part, exp) ==
    LET all == strip_leading_zeros(int_part \o frac_part)
        sig == strip_trailing_zeros(all)
    IN  IF sig = <<>> THEN [kind |-> "finite", neg |-> neg, digits |-> <<>>, exp |-> 0]
        ELSE [kind |-> "finite", neg |-> neg, digits |-> sig,
              exp |-> exp - Len(frac_part) + (Len(all) - Len(sig))]

\* the exponent's digits, after its sign
parse_f32_exponent(neg, int_part, frac_part, exp_neg, exp_digits) ==
    IF exp_digits = <<>> \/ digit_run(exp_digits) # Len(exp_digits) THEN Err(msg.float_invalid)
    ELSE Ok(decimal(neg, int_part, frac_part,
                    IF exp_neg THEN 0 - numeral_value(exp_digits)
                    ELSE numeral_value(exp_digits)))

\* what follows the mantissa: nothing, or (e|E) [sign] digits
parse_f32_tail(neg, int_part, frac_part, rest) ==
    IF rest = <<>> THEN Ok(decimal(neg, int_part, frac_part, 0))
    ELSE IF rest[1] \notin {"e", "E"} THEN Err(msg.float_invalid)
    ELSE IF Len(rest) > 1 /\ rest[2] \in {"+", "-"}
    THEN parse_f32_exponent(neg, int_part, frac_part, rest[2] = "-", Tail(Tail(rest)))
    ELSE parse_f32_exponent(neg, int_part, frac_part, FALSE, Tail(rest))

\* the fraction digits, n2 of them, open after_dot; the mantissa needs a digit
parse_f32_fraction(neg, int_part, after_dot, n2) ==
    IF Len(int_part) + n2 = 0 THEN Err(msg.float_invalid)
    ELSE parse_f32_tail(neg, int_part, SubSeq(after_dot, 1, n2),
                        SubSeq(after_dot, n2 + 1, Len(after_dot)))

\* the integer digits, n1 of them, open s: digits [. digits] follows
parse_f32_mantissa(neg, s, n1) ==
    IF n1 < Len(s) /\ s[n1 + 1] = "."
    THEN parse_f32_fraction(neg, SubSeq(s, 1, n1), SubSeq(s, n1 + 2, Len(s)),
                            digit_run(SubSeq(s, n1 + 2, Len(s))))
    ELSE parse_f32_fraction(neg, SubSeq(s, 1, n1), SubSeq(s, n1 + 1, Len(s)), 0)

\* the unsigned part of a float literal: digits [. digits] [(e|E) [sign] digits],
\* with a digit in the mantissa, or inf, infinity, nan in any case
parse_f32_unsigned(neg, s) ==
    IF to_lowercase(s) \in {<<"i","n","f">>, <<"i","n","f","i","n","i","t","y">>}
    THEN Ok([kind |-> "inf", neg |-> neg, digits |-> <<>>, exp |-> 0])
    ELSE IF to_lowercase(s) = <<"n","a","n">>
    THEN Ok([kind |-> "nan", neg |-> neg, digits |-> <<>>, exp |-> 0])
    ELSE parse_f32_mantissa(neg, s, digit_run(s))

\* value.parse::<f32>()
parse_f32(src) ==
    IF src = <<>> THEN Err(msg.float_empty)
    ELSE IF src[1] \in {"+", "-"}
    THEN IF Len(src) = 1 THEN Err(msg.float_invalid)
         ELSE parse_f32_unsigned(src[1] = "-", Tail(src))
    ELSE parse_f32_unsigned(FALSE, src)

\* value.parse::<String>(): a copy, which cannot fail
parse_String(src) == Ok(src)

\* T::from_str for the T that parse_parameter_from_expression is used at
parse_as(ty, src) ==
    CASE ty = "u64" -> parse_u64(src)
      [] ty = "f32" -> parse_f32(src)
      [] OTHER -> parse_String(src)

(***************************************************************************)
(* parse_parameter_from_expression                                         *)
(***************************************************************************)
parse_parameter_from_expression(expression, parameter, ty) ==
    Traced("parse_parameter_from_expression",
        IF Len(expression) < 4 THEN Err(msg.param_four_entries)
        ELSE IF expression[1] # OpenParen THEN Err(msg.param_no_open)
        ELSE IF expression[2] # Word(parameter)
        THEN Err(msg.param_not_contain \o parameter \o <<"'">>)
        ELSE IF ~IsWord(expression[3]) THEN Err(msg.param_no_value)
        ELSE map_err(parse_as(ty, expression[3].word), msg.param_parse))

(***************************************************************************)
(* property.rs: KiCadPropertyType, KiCadPropertyId, KiCadLocation,         *)
(* KiCadFontSize, KiCadFont, KiCadEffects                                  *)
(***************************************************************************)
\* the strum serialisations of KiCadPropertyType, variant by variant
KiCadPropertyType_names ==
    [ Reference |-> kw.Reference, Value |-> kw.Value, Footprint |-> kw.Footprint,
      Datasheet |-> kw.Datasheet, Description |-> kw.Description,
      KiLocked |-> kw.ki_locked, KiKeywords |-> kw.ki_keywords,
      KiFpFilters |-> kw.ki_fp_filters, PartRev |-> kw.PARTREV,
      Standard |-> kw.STANDARD, MaximumPackageHeight |-> kw.MAXIMUM_PACKAGE_HEIGHT,
      Manufacturer |-> kw.MANUFACTURER ]

\* KiCadPropertyType::from_str, derived by strum::EnumString
KiCadPropertyType_from_str(s) ==
    IF \E v \in DOMAIN KiCadPropertyType_names : KiCadPropertyType_names[v] = s
    THEN Ok(CHOOSE v \in DOMAIN KiCadPropertyType_names : KiCadPropertyType_names[v] = s)
    ELSE Err(msg.variant_not_found)

KiCadPropertyId_try_from_expression(expression) ==
    Traced("KiCadPropertyId",
        Try(check_expression_validity(expression, kw.id), LAMBDA checked :
        IF Len(expression) < 4
        THEN Err(msg.id_four_entries \o debug_expression(expression))
        ELSE IF ~get_is_word(expression, 2)
        THEN Err(msg.id_no_id \o debug_expression(expression))
        ELSE parse_u32(expression[3].word)))

KiCadLocation_try_from_expression(expression) ==
    Traced("KiCadLocation",
        Try(check_expression_validity(expression, kw.at), LAMBDA checked :
        IF Len(expression) < 5
        THEN Err(msg.location_five_entries \o debug_expression(expression))
        ELSE IF ~get_is_word(expression, 2) THEN Err(msg.location_no_x)
        ELSE IF ~get_is_word(expression, 3) THEN Err(msg.location_no_y)
        ELSE IF ~get_is_word(expression, 4) THEN Err(msg.location_no_z)
        ELSE Try(parse_f32(expression[3].word), LAMBDA x :
             Try(parse_f32(expression[4].word), LAMBDA y :
             Try(parse_f32(expression[5].word), LAMBDA z :
             Ok(<<x.val, y.val, z.val>>))))))

KiCadFontSize_try_from_expression(expression) ==
    Traced("KiCadFontSize",
        Try(check_expression_validity(expression, kw.size), LAMBDA checked :
        IF Len(expression) # 5
        THEN Err(msg.font_size_entries \o debug_expression(expression))
        ELSE IF ~get_is_word(expression, 2) THEN Err(msg.font_size_no_width)
        ELSE IF ~get_is_word(expression, 3) THEN Err(msg.font_size_no_height)
        ELSE Try(parse_f32(expression[3].word), LAMBDA width :
             Try(parse_f32(expression[4].word), LAMBDA height :
             Ok([width |-> width.val, height |-> height.val])))))

\* the style switches of a font: the child keyword is the field it sets
KiCadFont_flags ==
    {kw.bold, kw.italic, kw.subscript, kw.superscript, kw.overbar, kw.underline}

\* every style keyword sets the flag named bold
KiCadFont_flag_field_mut(property) == "bold"

KiCadFont_flag_field(property) ==
    CASE property = kw.bold -> "bold"
      [] property = kw.italic -> "italic"
      [] property = kw.subscript -> "subscript"
      [] property = kw.superscript -> "superscript"
      [] property = kw.overbar -> "overbar"
      [] OTHER -> "underline"

RECURSIVE KiCadFont_children(_, _, _)
\* the dispatch loop of KiCadFont::try_from_expression
KiCadFont_children(subexpressions, i, acc) ==
    IF i > Len(subexpressions) THEN acc
    ELSE LET expression == subexpressions[i] IN
         IF ~get_is_word(expression, 1) THEN KiCadFont_children(subexpressions, i + 1, acc)
         ELSE LET property == expression[2].word IN
              CASE property = kw.size ->
                     Step(acc, KiCadFontSize_try_from_expression(expression),
                          LAMBDA r : KiCadFont_children(subexpressions, i + 1,
                                                 Put(acc, r, "font_size", Some(r.val))))
                [] property \in KiCadFont_flags ->
                     KiCadFont_children(subexpressions, i + 1,
                         [acc EXCEPT !.val[KiCadFont_flag_field(property)] = TRUE])
                [] OTHER -> Bail(acc, msg.font_child \o property)

KiCadFont_try_from_expression(expression) ==
    Traced("KiCadFont",
        Try(check_expression_validity(expression, kw.font), LAMBDA checked :
        KiCadFont_children(subdivide_expression(slice_from(expression, 2)), 1,
                 Ok([font_size |-> None, bold |-> FALSE, italic |-> FALSE,
                     subscript |-> FALSE, superscript |-> FALSE, overbar |-> FALSE,
                     underline |-> FALSE]))))

KiCadEffectsJustify_names ==
    [Bottom |-> kw.bottom, Top |-> kw.top, Left |-> kw.left, Right |-> kw.right]

RECURSIVE KiCadEffects_justify(_, _, _)
\* `for i in 2..(expression.len() - 1)`, i 0-based; justify is the list so far
KiCadEffects_justify(expression, i, justify) ==
    IF i >= Len(expression) - 1 THEN Ok(justify)
    ELSE IF ~get_is_word(expression, i) THEN Err(msg.justify_no_value)
    ELSE LET justify_value == expression[i + 1].word IN
         IF \E v \in DOMAIN KiCadEffectsJustify_names : KiCadEffectsJustify_names[v] = justify_value
         THEN KiCadEffects_justify(expression, i + 1,
                  Append(justify, CHOOSE v \in DOMAIN KiCadEffectsJustify_names :
                                      KiCadEffectsJustify_names[v] = justify_value))
         ELSE Err(msg.justify_value \o justify_value)

RECURSIVE KiCadEffects_children(_, _, _)
\* the dispatch loop of KiCadEffects::try_from_expression
KiCadEffects_children(subexpressions, i, acc) ==
    IF i > Len(subexpressions) THEN acc
    ELSE LET expression == subexpressions[i] IN
         IF ~get_is_word(expression, 1) THEN KiCadEffects_children(subexpressions, i + 1, acc)
         ELSE LET property == expression[2].word IN
              CASE property = kw.font ->
                     Step(acc, KiCadFont_try_from_expression(expression),
                          LAMBDA r : KiCadEffects_children(subexpressions, i + 1,
                                                    Put(acc, r, "font", Some(r.val))))
                [] property = kw.justify ->
                     IF Len(expression) < 3 THEN Bail(acc, msg.justify_no_value)
                     ELSE Step(acc, KiCadEffects_justify(expression, 2, acc.val.justify),
                               LAMBDA r : KiCadEffects_children(subexpressions, i + 1,
                                                         Put(acc, r, "justify", r.val)))
                [] property = kw.hide ->
                     KiCadEffects_children(subexpressions, i + 1, [acc EXCEPT !.val.hide = TRUE])
                [] OTHER -> Bail(acc, msg.effects_child \o property)

KiCadEffects_try_from_expression(expression) ==
    Traced("KiCadEffects",
        Try(check_expression_validity(expression, kw.effects), LAMBDA checked :
        KiCadEffects_children(subdivide_expression(slice_from(expression, 2)), 1,
                 Ok([font |-> None, hide |-> FALSE, justify |-> <<>>]))))

(***************************************************************************)
(* property.rs: KiCadSingleValueProperty, Offset, KiCadPinNames            *)
(***************************************************************************)
accepts_yes_mut(value) == to_lowercase(value) = kw.yes

\* the "yes" arm of try_parse_string_to_bool
accepts_yes(value) == value = kw.yes

try_parse_string_to_bool(value) ==
    IF accepts_yes(value) THEN Ok(TRUE)
    ELSE IF value = kw.no THEN Ok(FALSE)
    ELSE Err(msg.bool_value \o value)

KiCadSingleValueProperty_try_from_expression(expression) ==
    Traced("KiCadSingleValueProperty",
        Try(get_expression_first_value(expression), LAMBDA first :
        IF ~IsWord(first.val)
        THEN Err(msg.single_not_word \o debug_expression(expression))
        ELSE IF Len(expression) < 3 THEN Err(msg.single_no_value)
        ELSE IF ~IsWord(expression[3]) THEN Err(msg.single_value_not_word)
        ELSE LET prop == first.val.word
                 value == expression[3].word
                 tagged(variant, r) ==
                     IF r.st = "Ok" THEN Ok([variant |-> variant, value |-> r.val]) ELSE r
             IN  CASE prop = kw.offset -> tagged("Offset", parse_f32(value))
                   [] prop = kw.in_bom -> tagged("InBom", try_parse_string_to_bool(value))
                   [] prop = kw.on_board -> tagged("OnBoard", try_parse_string_to_bool(value))
                   [] prop = kw.exclude_from_sim ->
                        tagged("ExcludeFromSim", try_parse_string_to_bool(value))
                   [] OTHER -> Err(msg.single_option \o prop \o <<",", " ">> \o value)))

Offset_try_from_expression(expression) ==
    Traced("Offset",
        Try(check_expression_validity(expression, kw.offset), LAMBDA checked :
        IF ~get_is_word(expression, 2) THEN Err(msg.offset_no_value)
        ELSE parse_f32(expression[3].word)))

KiCadPinNames_try_from_expression(expression) ==
    Traced("KiCadPinNames",
        Try(check_expression_validity(expression, kw.pin_names), LAMBDA checked :
        LET subexpression == subdivide_expression(slice_from(expression, 2)) IN
             IF Len(subexpression) # 1 THEN Panic(msg.not_implemented)
             ELSE Try(Offset_try_from_expression(subexpression[1]), LAMBDA r :
                      [Ok([offset |-> r.val]) EXCEPT !.log = r.log])))

(***************************************************************************)
(* property.rs: KiCadStroke, KiCadFill, KiCadPolylinePts, KiCadPolyline,   *)
(* KiCadText                                                               *)
(***************************************************************************)
KiCadStrokeType_from_str(s) ==
    IF to_lowercase(s) = kw.default THEN Ok("Default") ELSE Err(msg.stroke_type \o s)

RECURSIVE KiCadStroke_children(_, _, _)
KiCadStroke_children(subexpressions, i, acc) ==
    IF i > Len(subexpressions) THEN acc
    ELSE LET expression == subexpressions[i] IN
         IF ~get_is_word(expression, 1) THEN KiCadStroke_children(subexpressions, i + 1, acc)
         ELSE LET property == expression[2].word IN
              CASE property = kw.width ->
                     IF ~get_is_word(expression, 2) THEN Bail(acc, msg.stroke_no_width)
                     ELSE Step(acc, parse_f32(expression[3].word),
                               LAMBDA r : KiCadStroke_children(subexpressions, i + 1,
                                                        Put(acc, r, "width", Some(r.val))))
                [] property = kw.type ->
                     IF ~get_is_word(expression, 2) THEN Bail(acc, msg.stroke_no_type)
                     ELSE Step(acc, KiCadStrokeType_from_str(expression[3].word),
                               LAMBDA r : KiCadStroke_children(subexpressions, i + 1,
                                                        Put(acc, r, "stroke_type", Some(r.val))))
                [] OTHER -> Bail(acc, msg.stroke_child \o property)

KiCadStroke_try_from_expression(expression) ==
    Traced("KiCadStroke",
        Try(check_expression_validity(expression, kw.stroke), LAMBDA checked :
        KiCadStroke_children(subdivide_expression(slice_from(expression, 2)), 1,
                 Ok([width |-> None, stroke_type |-> None]))))

KiCadFillType_from_str(s) ==
    LET low == to_lowercase(s) IN
    CASE low = kw.background -> Ok("Background")
      [] low = kw.outline -> Ok("Outline")
      [] low = kw.none -> Ok("None")
      [] OTHER -> Err(msg.fill_type \o s)

RECURSIVE KiCadFill_children(_, _, _)
KiCadFill_children(subexpressions, i, acc) ==
    IF i > Len(subexpressions) THEN acc
    ELSE LET expression == subexpressions[i] IN
         IF ~get_is_word(expression, 1) THEN KiCadFill_children(subexpressions, i + 1, acc)
         ELSE LET property == expression[2].word IN
              CASE property = kw.type ->
                     IF ~get_is_word(expression, 2) THEN Bail(acc, msg.fill_no_type)
                     ELSE Step(acc, KiCadFillType_from_str(expression[3].word),
                               LAMBDA r : KiCadFill_children(subexpressions, i + 1,
                                                      Put(acc, r, "fill_type", Some(r.val))))
                [] OTHER -> Bail(acc, msg.fill_child \o property)

KiCadFill_try_from_expression(expression) ==
    Traced("KiCadFill",
        Try(check_expression_validity(expression, kw.fill), LAMBDA checked :
        KiCadFill_children(subdivide_expression(slice_from(expression, 2)), 1,
                 Ok([fill_type |-> None]))))

RECURSIVE KiCadPolylinePts_children(_, _, _)
\* acc.val is the point list pts
KiCadPolylinePts_children(subexpressions, i, acc) ==
    IF i > Len(subexpressions) THEN acc
    ELSE LET expression == subexpressions[i] IN
         IF ~get_is_word(expression, 1)
         THEN KiCadPolylinePts_children(subexpressions, i + 1, acc)
         ELSE LET property == expression[2].word IN
              CASE property = kw.xy ->
                     IF ~get_is_word(expression, 2) THEN Bail(acc, msg.pts_no_x)
                     ELSE IF ~get_is_word(expression, 3) THEN Bail(acc, msg.pts_no_y)
                     ELSE Step(acc, parse_f32(expression[3].word), LAMBDA x :
                          Step(acc, parse_f32(expression[4].word), LAMBDA y :
                          KiCadPolylinePts_children(subexpressions, i + 1,
                              [acc EXCEPT !.val = Append(@, [x |-> x.val, y |-> y.val])])))
                [] OTHER -> Bail(acc, msg.pts_child \o property)

KiCadPolylinePts_try_from_expression(expression) ==
    Traced("KiCadPolylinePts",
        Try(check_expression_validity(expression, kw.pts), LAMBDA checked :
        KiCadPolylinePts_children(subdivide_expression(slice_from(expression, 2)), 1,
                                       Ok(<<>>))))

RECURSIVE KiCadPolyline_children(_, _, _)
KiCadPolyline_children(subexpressions, i, acc) ==
    IF i > Len(subexpressions) THEN acc
    ELSE LET expression == subexpressions[i] IN
         IF ~get_is_word(expression, 1) THEN KiCadPolyline_children(subexpressions, i + 1, acc)
         ELSE LET property == expression[2].word IN
              CASE property = kw.pts ->
                     Step(acc, KiCadPolylinePts_try_from_expression(expression),
                          LAMBDA r : KiCadPolyline_children(subexpressions, i + 1,
                                                     Put(acc, r, "pts", r.val)))
                [] property = kw.stroke ->
                     Step(acc, KiCadStroke_try_from_expression(expression),
                          LAMBDA r : KiCadPolyline_children(subexpressions, i + 1,
                                                     Put(acc, r, "stroke", Some(r.val))))
                [] property = kw.fill ->
                     Step(acc, KiCadFill_try_from_expression(expression),
                          LAMBDA r : KiCadPolyline_children(subexpressions, i + 1,
                                                     Put(acc, r, "fill", Some(r.val))))
                [] OTHER -> Bail(acc, msg.polyline_child \o property)

KiCadPolyline_try_from_expression(expression) ==
    Traced("KiCadPolyline",
        Try(check_expression_validity(expression, kw.polyline), LAMBDA checked :
        KiCadPolyline_children(subdivide_expression(slice_from(expression, 2)), 1,
                 Ok([pts |-> <<>>, stroke |-> None, fill |-> None]))))

\* a text with no placement is taken as it is
location_is_none_mut(location) == FALSE

\* location.ok_or(..): the text has no placement
location_is_none(location) == ~location.some

RECURSIVE KiCadText_children(_, _, _)
KiCadText_children(subexpressions, i, acc) ==
    IF i > Len(subexpressions) THEN acc
    ELSE LET expression == subexpressions[i] IN
         IF ~get_is_word(expression, 1) THEN KiCadText_children(subexpressions, i + 1, acc)
         ELSE LET property == expression[2].word IN
              CASE property = kw.effects ->
                     Step(acc, KiCadEffects_try_from_expression(expression),
                          LAMBDA r : KiCadText_children(subexpressions, i + 1,
                                                 Put(acc, r, "effects", Some(r.val))))
                [] property = kw.at ->
                     Step(acc, KiCadLocation_try_from_expression(expression),
                          LAMBDA r : KiCadText_children(subexpressions, i + 1,
                                                 Put(acc, r, "location", Some(r.val))))
                [] OTHER -> Bail(acc, msg.text_child \o property)

KiCadText_try_from_expression(expression) ==
    Traced("KiCadText",
        Try(check_expression_validity(expression, kw.text), LAMBDA checked :
        IF ~get_is_word(expression, 2) THEN Err(msg.text_no_text)
        ELSE Try(KiCadText_children(subdivide_expression(slice_from(expression, 3)), 1,
                                    Ok([location |-> None, effects |-> None])),
                 LAMBDA acc :
                     IF location_is_none(acc.val.location) THEN Bail(acc, msg.text_no_location)
                     ELSE [acc EXCEPT !.val = [text |-> expression[3].word,
                                               location |-> acc.val.location.v,
                                               effects |-> acc.val.effects]])))

(***************************************************************************)
(* pin.rs: KiCadPinName, KiCadPinNumber, KiCadPinType, KiCadPinPolarity,   *)
(* KiCadPinLength, KiCadPin                                                *)
(***************************************************************************)
RECURSIVE KiCadPinName_children(_, _, _)
KiCadPinName_children(subexpressions, i, acc) ==
    IF i > Len(subexpressions) THEN acc
    ELSE LET subexpression == subexpressions[i] IN
         IF ~get_is_word(subexpression, 1)
         THEN KiCadPinName_children(subexpressions, i + 1, acc)
         ELSE LET property_name == subexpression[2].word IN
              CASE property_name = kw.effects ->
                     Step(acc, KiCadEffects_try_from_expression(subexpression),
                          LAMBDA r : KiCadPinName_children(subexpressions, i + 1,
                                                    Put(acc, r, "effects", Some(r.val))))
                [] OTHER -> Bail(acc, msg.pin_name_child \o property_name)

KiCadPinName_try_from_expression(expression) ==
    Traced("KiCadPinName",
        Try(check_expression_validity(expression, kw.name), LAMBDA checked :
        IF ~get_is_word(expression, 2) THEN Err(msg.pin_name_missing)
        ELSE KiCadPinName_children(subdivide_expression(slice_from(expression, 3)), 1,
                 Ok([name |-> expression[3].word, effects |-> None]))))

RECURSIVE KiCadPinNumber_children(_, _, _)
KiCadPinNumber_children(subexpressions, i, acc) ==
    IF i > Len(subexpressions) THEN acc
    ELSE LET subexpression == subexpressions[i] IN
         IF ~get_is_word(subexpression, 1)
         THEN KiCadPinNumber_children(subexpressions, i + 1, acc)
         ELSE LET property_name == subexpression[2].word IN
              CASE property_name = kw.effects ->
                     Step(acc, KiCadEffects_try_from_expression(subexpression),
                          LAMBDA r : KiCadPinNumber_children(subexpressions, i + 1,
                                                      Put(acc, r, "effects", Some(r.val))))
                [] OTHER -> Bail(acc, msg.pin_number_child \o property_name)

\* the number is read with `expression.get(1)` and the children are
\* segmented from `expression[2..]`
KiCadPinNumber_try_from_expression(expression) ==
    Traced("KiCadPinNumber",
        Try(check_expression_validity(expression, kw.number), LAMBDA checked :
        IF ~get_is_word(expression, 1) THEN Err(msg.pin_number_missing)
        ELSE KiCadPinNumber_children(subdivide_expression(slice_from(expression, 2)), 1,
                 Ok([number |-> expression[2].word, effects |-> None]))))

KiCadPinType_from_str(s) ==
    CASE s = kw.passive -> Ok("Passive")
      [] s = kw.power_in -> Ok("PowerIn")
      [] s = kw.power_out -> Ok("PowerOut")
      [] s = kw.input -> Ok("Input")
      [] s = kw.unspecified -> Ok("Unspecified")
      [] OTHER -> Err(msg.pin_type \o s)

KiCadPinPolarity_from_str(s) ==
    CASE s = kw.line -> Ok("Line")
      [] s = kw.inverted -> Ok("Inverted")
      [] OTHER -> Err(msg.pin_polarity)

KiCadPinLength_try_from_expression(expression) ==
    Traced("KiCadPinLength",
        Try(check_expression_validity(expression, kw.length), LAMBDA checked :
        IF ~get_is_word(expression, 2) THEN Err(msg.pin_length_missing)
        ELSE parse_f32(expression[3].word)))

\* a default arm like the pin name's: the unknown keyword is an error
pin_default_arm_mut(acc, property_name) == Bail(acc, msg.pin_name_child \o property_name)

\* the default arm of KiCadPin's dispatch: `_ => {}`
pin_default_arm(acc, property_name) == acc

RECURSIVE KiCadPin_children(_, _, _)
\* the dispatch loop of KiCadPin::try_from_expression; its default arm is empty
KiCadPin_children(subexpressions, i, acc) ==
    IF i > Len(subexpressions) THEN acc
    ELSE LET subexpression == subexpressions[i] IN
         IF ~get_is_word(subexpression, 1) THEN KiCadPin_children(subexpressions, i + 1, acc)
         ELSE LET property_name == subexpression[2].word IN
              CASE property_name = kw.name ->
                     Step(acc, KiCadPinName_try_from_expression(subexpression),
                          LAMBDA r : KiCadPin_children(subexpressions, i + 1,
                                                Put(acc, r, "name", Some(r.val))))
                [] property_name = kw.number ->
                     Step(acc, KiCadPinNumber_try_from_expression(subexpression),
                          LAMBDA r : KiCadPin_children(subexpressions, i + 1,
                                                Put(acc, r, "number", Some(r.val))))
                [] property_name = kw.at ->
                     Step(acc, KiCadLocation_try_from_expression(subexpression),
                          LAMBDA r : KiCadPin_children(subexpressions, i + 1,
                                                Put(acc, r, "location", Some(r.val))))
                [] property_name = kw.length ->
                     Step(acc, KiCadPinLength_try_from_expression(subexpression),
                          LAMBDA r : KiCadPin_children(subexpressions, i + 1,
                                                Put(acc, r, "length", Some(r.val))))
                [] OTHER ->
                     Try(pin_default_arm(acc, property_name),
                         LAMBDA next : KiCadPin_children(subexpressions, i + 1, next))

KiCadPin_try_from_expression(expression) ==
    Traced("KiCadPin",
        Try(check_expression_validity(expression, kw.pin), LAMBDA checked :
        IF ~get_is_word(expression, 2) THEN Err(msg.pin_type_missing)
        ELSE IF ~get_is_word(expression, 3) THEN Err(msg.pin_polarity_missing)
        ELSE Try(KiCadPinType_from_str(expression[3].word), LAMBDA pin_type :
             Try(KiCadPinPolarity_from_str(expression[4].word), LAMBDA pin_polarity :
             KiCadPin_children(subdivide_expression(slice_from(expression, 4)), 1,
                 Ok([pin_type |-> pin_type.val, pin_polarity |-> pin_polarity.val,
                     location |-> None, length |-> None,
                     name |-> None, number |-> None]))))))

(***************************************************************************)
(* property.rs: KiCadProperty, KiCadSubSymbol, KiCadSymbol                 *)
(***************************************************************************)
RECURSIVE KiCadProperty_children(_, _, _)
\* acc.val is the KiCadPropertyBuilder
KiCadProperty_children(subexpressions, i, acc) ==
    IF i > Len(subexpressions) THEN acc
    ELSE LET expression == subexpressions[i] IN
         IF ~get_is_word(expression, 1) THEN KiCadProperty_children(subexpressions, i + 1, acc)
         ELSE LET property == expression[2].word IN
              CASE property = kw.id ->
                     Step(acc, KiCadPropertyId_try_from_expression(expression),
                          LAMBDA r : KiCadProperty_children(subexpressions, i + 1,
                                                     Put(acc, r, "id", Some(r.val))))
                [] property = kw.at ->
                     Step(acc, KiCadLocation_try_from_expression(expression),
                          LAMBDA r : KiCadProperty_children(subexpressions, i + 1,
                                                     Put(acc, r, "location", Some(r.val))))
                [] property = kw.effects ->
                     Step(acc, KiCadEffects_try_from_expression(expression),
                          LAMBDA r : KiCadProperty_children(subexpressions, i + 1,
                                                     Put(acc, r, "effects", Some(r.val))))
                [] OTHER -> Bail(acc, msg.property_child \o property)

\* KiCadPropertyBuilder::new
KiCadPropertyBuilder_new(property_type, value) ==
    [property_type |-> property_type, value |-> value,
     id |-> None, location |-> None, effects |-> None]

KiCadProperty_try_from_expression(expression) ==
    Traced("KiCadProperty",
        Try(check_expression_validity(expression, kw.property), LAMBDA checked :
        IF ~get_is_word(expression, 2) THEN Err(msg.property_no_type)
        ELSE IF ~get_is_word(expression, 3) THEN Err(msg.property_no_value)
        ELSE LET property_type == KiCadPropertyType_from_str(expression[3].word) IN
             IF property_type.st # "Ok" THEN property_type
             ELSE KiCadProperty_children(subdivide_expression(slice_from(expression, 4)), 1,
                      Ok(KiCadPropertyBuilder_new(property_type.val, expression[4].word)))))

RECURSIVE KiCadSubSymbol_children(_, _, _)
KiCadSubSymbol_children(subexpressions, i, acc) ==
    IF i > Len(subexpressions) THEN acc
    ELSE LET expression == subexpressions[i] IN
         IF ~get_is_word(expression, 1) THEN KiCadSubSymbol_children(subexpressions, i + 1, acc)
         ELSE LET value == expression[2].word IN
              CASE value = kw.polyline ->
                     Step(acc, KiCadPolyline_try_from_expression(expression),
                          LAMBDA r : KiCadSubSymbol_children(subexpressions, i + 1,
                                  Put(acc, r, "polylines", Append(acc.val.polylines, r.val))))
                [] value = kw.text ->
                     Step(acc, KiCadText_try_from_expression(expression),
                          LAMBDA r : KiCadSubSymbol_children(subexpressions, i + 1,
                                  Put(acc, r, "texts", Append(acc.val.texts, r.val))))
                [] value = kw.pin ->
                     Step(acc, KiCadPin_try_from_expression(expression),
                          LAMBDA r : KiCadSubSymbol_children(subexpressions, i + 1,
                                  Put(acc, r, "pins", Append(acc.val.pins, r.val))))
                [] OTHER -> Bail(acc, msg.sub_symbol_child \o value)

KiCadSubSymbol_try_from_expression(expression) ==
    Traced("KiCadSubSymbol",
        Try(check_expression_validity(expression, kw.symbol), LAMBDA checked :
        KiCadSubSymbol_children(subdivide_expression(slice_from(expression, 2)), 1,
                 Ok([polylines |-> <<>>, texts |-> <<>>, pins |-> <<>>]))))

\* the child keywords KiCadSymbol dispatches on
KiCadSymbol_keywords ==
    {kw.pin_names, kw.exclude_from_sim, kw.in_bom, kw.on_board, kw.property, kw.symbol}

symbol_default_arm_mut(acc, value) == acc

\* the default arm of KiCadSymbol's dispatch: `bail!(".. symbol property: {value}")`
symbol_default_arm(acc, value) == Bail(acc, msg.symbol_child \o value)

\* a property list keyed by type: a property replaces the earlier one of its type
add_property_mut(properties, property) ==
    IF \E k \in 1..Len(properties) : properties[k].property_type = property.property_type
    THEN [k \in 1..Len(properties) |->
             IF properties[k].property_type = property.property_type THEN property
             ELSE properties[k]]
    ELSE Append(properties, property)

\* KiCadSymbolBuilder::add_property: `self.properties.push(property)`
add_property(properties, property) == Append(properties, property)

RECURSIVE KiCadSymbol_children(_, _, _)
\* acc.val is the KiCadSymbolBuilder
KiCadSymbol_children(subexpressions, i, acc) ==
    IF i > Len(subexpressions) THEN acc
    ELSE LET expression == subexpressions[i] IN
         IF ~get_is_word(expression, 1) THEN KiCadSymbol_children(subexpressions, i + 1, acc)
         ELSE LET value == expression[2].word IN
              CASE value = kw.pin_names ->
                     Step(acc, KiCadPinNames_try_from_expression(expression),
                          LAMBDA r : KiCadSymbol_children(subexpressions, i + 1,
                                                   Put(acc, r, "pin_names", Some(r.val))))
                [] value = kw.exclude_from_sim ->
                     Step(acc, KiCadSingleValueProperty_try_from_expression(expression),
                          LAMBDA r : KiCadSymbol_children(subexpressions, i + 1,
                                                   Put(acc, r, "exclude_from_sim", Some(r.val))))
                [] value = kw.in_bom ->
                     Step(acc, KiCadSingleValueProperty_try_from_expression(expression),
                          LAMBDA r : KiCadSymbol_children(subexpressions, i + 1,
                                                   Put(acc, r, "in_bom", Some(r.val))))
                [] value = kw.on_board ->
                     Step(acc, KiCadSingleValueProperty_try_from_expression(expression),
                          LAMBDA r : KiCadSymbol_children(subexpressions, i + 1,
                                                   Put(acc, r, "on_board", Some(r.val))))
                [] value = kw.property ->
                     Step(acc, KiCadProperty_try_from_expression(expression),
                          LAMBDA r : KiCadSymbol_children(subexpressions, i + 1,
                                  Put(acc, r, "properties", add_property(acc.val.properties, r.val))))
                [] value = kw.symbol ->
                     Step(acc, KiCadSubSymbol_try_from_expression(expression),
                          LAMBDA r : KiCadSymbol_children(subexpressions, i + 1,
                                  Put(acc, r, "sub_symbols", Append(acc.val.sub_symbols, r.val))))
                [] OTHER ->
                     Try(symbol_default_arm(acc, value),
                         LAMBDA next : KiCadSymbol_children(subexpressions, i + 1, next))

\* KiCadSymbolBuilder::new
KiCadSymbolBuilder_new(name) ==
    [name |-> name, pin_names |-> None, exclude_from_sim |-> None, in_bom |-> None,
     on_board |-> None, properties |-> <<>>, sub_symbols |-> <<>>]

KiCadSymbol_try_from_expression(expression) ==
    Traced("KiCadSymbol",
        Try(check_expression_validity(expression, kw.symbol), LAMBDA checked :
        IF Len(expression) < 3 THEN Panic(msg.index_out_of_bounds)
        ELSE IF ~IsWord(expression[3]) THEN Err(msg.symbol_no_name)
        ELSE KiCadSymbol_children(subdivide_expression(slice_from(expression, 3)), 1,
                                  Ok(KiCadSymbolBuilder_new(expression[3].word)))))

(***************************************************************************)
(* symbols.rs: KicadSymbolLib::from_file                                   *)
(***************************************************************************)
\* a push at the front of the symbol list
symbols_push_mut(symbols, kicad_symbol) == <<kicad_symbol>> \o symbols

\* symbols.push(kicad_symbol)
symbols_push(symbols, kicad_symbol) == Append(symbols, kicad_symbol)

lib_default_arm_mut(acc, property) == acc

\* the default arm of from_file's dispatch: `bail!(".. library property: {property}")`
lib_default_arm(acc, property) == Bail(acc, msg.lib_property \o property)

\* trait TryFromExpression<T>: T::try_from_expression(expression) for the
\* implementing types that run a child-dispatch loop
try_from_expression(T, expression) ==
    CASE T = "KiCadSymbol" -> KiCadSymbol_try_from_expression(expression)
      [] T = "KiCadSubSymbol" -> KiCadSubSymbol_try_from_expression(expression)
      [] T = "KiCadProperty" -> KiCadProperty_try_from_expression(expression)
      [] T = "KiCadEffects" -> KiCadEffects_try_from_expression(expression)
      [] T = "KiCadFont" -> KiCadFont_try_from_expression(expression)
      [] T = "KiCadStroke" -> KiCadStroke_try_from_expression(expression)
      [] T = "KiCadFill" -> KiCadFill_try_from_expression(expression)
      [] T = "KiCadPolylinePts" -> KiCadPolylinePts_try_from_expression(expression)
      [] T = "KiCadPolyline" -> KiCadPolyline_try_from_expression(expression)
      [] T = "KiCadText" -> KiCadText_try_from_expression(expression)
      [] T = "KiCadPin" -> KiCadPin_try_from_expression(expression)
      [] T = "KiCadPinName" -> KiCadPinName_try_from_expression(expression)
      [] T = "KiCadPinNumber" -> KiCadPinNumber_try_from_expression(expression)

RECURSIVE from_file_children(_, _, _)
\* the dispatch loop of from_file; acc.val holds version, generator,
\* generator_version and symbols
from_file_children(subexpressions, i, acc) ==
    IF i > Len(subexpressions) THEN acc
    ELSE LET expression == subexpressions[i] IN
         IF ~get_is_word(expression, 1) THEN from_file_children(subexpressions, i + 1, acc)
         ELSE LET property == expression[2].word IN
              CASE property = kw.version ->
                     Step(acc, parse_parameter_from_expression(expression, kw.version, "u64"),
                          LAMBDA r : from_file_children(subexpressions, i + 1,
                                                 Put(acc, r, "version", Some(r.val))))
                [] property = kw.generator ->
                     Step(acc, parse_parameter_from_expression(expression, kw.generator, "String"),
                          LAMBDA r : from_file_children(subexpressions, i + 1,
                                                 Put(acc, r, "generator", Some(r.val))))
                [] property = kw.generator_version ->
                     Step(acc, parse_parameter_from_expression(expression, kw.generator_version,
                                                              "f32"),
                          LAMBDA r : from_file_children(subexpressions, i + 1,
                                                 Put(acc, r, "generator_version", Some(r.val))))
                [] property = kw.symbol ->
                     Step(acc, KiCadSymbol_try_from_expression(expression),
                          LAMBDA r : from_file_children(subexpressions, i + 1,
                                  Put(acc, r, "symbols", symbols_push(acc.val.symbols, r.val))))
                [] OTHER ->
                     Try(lib_default_arm(acc, property),
                         LAMBDA next : from_file_children(subexpressions, i + 1, next))

\* locals that outlive the call: a second call starts from the Library the
\* call before it returned
from_file_locals_mut ==
    IF pc = "again" /\ ret.st = "Ok" THEN ret.val
    ELSE [version |-> None, generator |-> None, generator_version |-> None, symbols |-> <<>>]

\* `let mut generator = None; .. let mut symbols = Vec::new();`: the locals
\* of from_file, created by each call
from_file_locals ==
    [version |-> None, generator |-> None, generator_version |-> None, symbols |-> <<>>]

\* from_file on a file whose content has been read: content is the text
from_file(content) ==
    Traced("from_file",
        Try(tokenise(content), LAMBDA expression :
        Try(check_expression_validity(expression.val, kw.kicad_symbol_lib), LAMBDA checked :
        from_file_children(subdivide_expression(slice_from(expression.val, 2)), 1,
                           Ok(from_file_locals)))))

(***************************************************************************)
(* Bounds of the argument sets.                                            *)
(***************************************************************************)
MaxTextLen == 4

MaxSegTokens == 7

MaxGuardTokens == 3

SeqsUpTo(S, n) == UNION {[1..k -> S] : k \in 0..n}

\* the cuts of a sequence into consecutive non-empty pieces, each cut given
\* by the set of the pieces' last positions
Splits(s) == {cuts \cup {Len(s)} : cuts \in SUBSET (1..(Len(s) - 1))}

PieceEnd(ends, a) == CHOOSE e \in ends : e >= a /\ \A f \in ends : f >= a => e <= f

RECURSIVE Pieces(_, _, _)
\* the pieces of s from position a on, as [a, e] position pairs
Pieces(s, ends, a) ==
    IF a > Len(s) THEN <<>>
    ELSE LET e == PieceEnd(ends, a) IN <<[a |-> a, e |-> e]>> \o Pieces(s, ends, e + 1)

(***************************************************************************)
(* SpecTokenise: tokenise applied to a text.                               *)
(***************************************************************************)
TokeniseAlphabet == {"(", ")", " ", "\t", "\n", "\r", "\"", "a", "b"}

\* (a b "c d")
ExampleText == <<"(", "a", " ", "b", " ", "\"", "c", " ", "d", "\"", ")">>

TokeniseInputs == SeqsUpTo(TokeniseAlphabet, MaxTextLen) \cup {ExampleText}

InitTokenise == pc = "start" /\ arg \in TokeniseInputs /\ ret = NoRet

Call_tokenise ==
    /\ pc = "start"
    /\ ret' = tokenise(arg)
    /\ pc' = "done"
    /\ UNCHANGED arg

SpecTokenise == InitTokenise /\ [][Call_tokenise]_vars

\* The lexical rules, stated on a cut of the text into lexemes: the kind of
\* the lexeme text[a..e].
LexemeKind(text, a, e) ==
    LET p == SubSeq(text, a, e)
        n == Len(p)
        Blank == {" ", "\t", "\n", "\r"}
        Paren == {"(", ")"}
    IN  CASE p = <<"(">> -> "open"
          [] p = <<")">> -> "close"
          [] n = 1 /\ p[1] \in Blank -> "blank"
          [] p[1] = "\"" /\ n >= 2 /\ p[n] = "\"" /\ \A j \in 2..(n - 1) : p[j] # "\"" -> "quoted"
          [] p[1] = "\"" /\ (\A j \in 2..n : p[j] # "\"") /\ e = Len(text) -> "unterminated"
          [] /\ p[1] \notin Blank \cup Paren \cup {"\""}
             /\ \A j \in 1..n : p[j] \notin Blank \cup Paren
             /\ (e = Len(text) \/ text[e + 1] \in Blank \cup Paren) -> "bare"
          [] OTHER -> "invalid"

LexemeToken(text, a, e) ==
    LET k == LexemeKind(text, a, e) IN
    CASE k = "open" -> OpenParen
      [] k = "close" -> CloseParen
      [] k = "quoted" -> Word(SubSeq(text, a + 1, e - 1))
      [] k = "unterminated" -> Word(SubSeq(text, a + 1, e))
      [] OTHER -> Word(SubSeq(text, a, e))

ValidLexemes(text, ends) ==
    LET ps == Pieces(text, ends, 1)
    IN  \A k \in 1..Len(ps) : LexemeKind(text, ps[k].a, ps[k].e) # "invalid"

LexemeTokens(text, ends) ==
    LET ps == Pieces(text, ends, 1)
        IsToken(p) == LexemeKind(text, p.a, p.e) # "blank"
        kept == SelectSeq(ps, IsToken)
    IN  [k \in 1..Len(kept) |-> LexemeToken(text, kept[k].a, kept[k].e)]

\* C2: tokenise returns Ok for every text, and its token list is the one the
\* lexical rules fix: the text has a cut into lexemes (a parenthesis, a
\* blank, a quoted word closed by the next quote or running to the end of
\* input, a bare word running to the next blank or parenthesis), and the
\* tokens are the lexemes' tokens in order, blanks giving none; (a b "c d")
\* gives OpenParen, Word(a), Word(b), Word(c d), CloseParen.
C2_TokeniseFollowsLexicalRules ==
    pc = "done" =>
        /\ ret.st = "Ok"
        /\ \E ends \in Splits(arg) : ValidLexemes(arg, ends)
        /\ \A ends \in Splits(arg) :
               ValidLexemes(arg, ends) => ret.val = LexemeTokens(arg, ends)
        /\ arg = ExampleText =>
               ret.val = <<OpenParen, Word(<<"a">>), Word(<<"b">>),
                           Word(<<"c", " ", "d">>), CloseParen>>

C2_Witness ==
    /\ pc = "done"
    /\ arg = <<"a", "(", "\"", ")">>
    /\ ret.val = <<Word(<<"a">>), OpenParen, Word(<<")">>)>>

(***************************************************************************)
(* SpecSubdivide: subdivide_expression applied to a token sequence.        *)
(***************************************************************************)
SubdivideTokens == {OpenParen, CloseParen, Word(<<"a">>)}

SubdivideInputs == SeqsUpTo(SubdivideTokens, MaxSegTokens)

InitSubdivide == pc = "start" /\ arg \in SubdivideInputs /\ ret = NoRet

Call_subdivide_expression ==
    /\ pc = "start"
    /\ ret' = subdivide_expression(arg)
    /\ pc' = "done"
    /\ UNCHANGED arg

SpecSubdivide == InitSubdivide /\ [][Call_subdivide_expression]_vars

\* open markers minus close markers among the first j tokens
Depth(s, j) ==
    Cardinality({i \in 1..j : s[i] = OpenParen}) - Cardinality({i \in 1..j : s[i] = CloseParen})

\* one balanced parenthesized form: it opens, its depth stays positive until
\* its last token, which closes it
BalancedForm(s) ==
    /\ Len(s) >= 2
    /\ s[1] = OpenParen
    /\ s[Len(s)] = CloseParen
    /\ Depth(s, Len(s)) = 0
    /\ \A j \in 1..(Len(s) - 1) : Depth(s, j) > 0

FormsOf(s, ends) ==
    LET ps == Pieces(s, ends, 1) IN [k \in 1..Len(ps) |-> SubSeq(s, ps[k].a, ps[k].e)]

\* C1: when the argument is the concatenation of N >= 0 balanced forms, the
\* result is exactly those N forms, in order, token for token.
C1_SubdivideSplitsSiblingForms ==
    pc = "done" =>
        \A ends \in Splits(arg) :
            LET forms == FormsOf(arg, ends) IN
            (\A k \in 1..Len(forms) : BalancedForm(forms[k])) => ret = forms

C1_Witness ==
    /\ pc = "done"
    /\ arg = <<OpenParen, Word(<<"a">>), CloseParen, OpenParen, OpenParen, CloseParen, CloseParen>>
    /\ Len(ret) = 2
    /\ ret[2] = <<OpenParen, OpenParen, CloseParen, CloseParen>>

(***************************************************************************)
(* SpecValidity: check_expression_validity applied to an expression and a  *)
(* keyword.                                                                *)
(***************************************************************************)
ValidityWords == {<<"a", "t">>, <<"A", "t">>, <<"i", "d">>}

ValidityTokens == {OpenParen, CloseParen} \cup {Word(w) : w \in ValidityWords}

ValidityInputs ==
    {[expression |-> e, property |-> k] :
        e \in SeqsUpTo(ValidityTokens, MaxGuardTokens), k \in {<<"a", "t">>, <<"i", "d">>}}

InitValidity == pc = "start" /\ arg \in ValidityInputs /\ ret = NoRet

Call_check_expression_validity ==
    /\ pc = "start"
    /\ ret' = check_expression_validity(arg.expression, arg.property)
    /\ pc' = "done"
    /\ UNCHANGED arg

SpecValidity == InitValidity /\ [][Call_check_expression_validity]_vars

\* C3: the guard returns Ok exactly when the expression has at least two
\* tokens, the first the open marker and the second the word equal, case
\* included, to the keyword; otherwise it returns an error.
C3_ValidityGuardIff ==
    pc = "done" =>
        LET e == arg.expression
            good == /\ Len(e) >= 2
                    /\ e[1].type = "OpenParen"
                    /\ e[2].type = "Word"
                    /\ e[2].word = arg.property
        IN  /\ ret.st \in {"Ok", "Err"}
            /\ ret.st = "Ok" <=> good

C3_Witness ==
    /\ pc = "done"
    /\ arg.expression = <<OpenParen, Word(<<"A", "t">>), CloseParen>>
    /\ arg.property = <<"a", "t">>
    /\ ret.st = "Err"

(***************************************************************************)
(* SpecLib: from_file applied to the text of a library file.  The text is  *)
(* composed as `(kicad_symbol_lib`, then up to MaxLibChildren fragments of *)
(* LibFragments, then `)` unless the root form is left open; arg.content   *)
(* is the text and arg.children, arg.closed record how it was composed.    *)
(* Each fragment carries what it is (kind) and, for a well-formed child,   *)
(* the value it denotes.                                                   *)
(***************************************************************************)
MaxLibChildren == 3

Dec(neg, digits, exp) == [kind |-> "finite", neg |-> neg, digits |-> digits, exp |-> exp]

Zero == Dec(FALSE, <<>>, 0)

LibFragments ==
    << \* 1: (version 20211014)
       [ kind |-> "version", value |-> <<"2","0","2","1","1","0","1","4">>,
         text |-> <<" ","(","v","e","r","s","i","o","n"," ","2","0","2","1","1","0","1","4",")">> ],
       \* 2: (version 007)
       [ kind |-> "version", value |-> <<"7">>,
         text |-> <<" ","(","v","e","r","s","i","o","n"," ","0","0","7",")">> ],
       \* 3: (generator "test")
       [ kind |-> "generator", value |-> <<"t","e","s","t">>,
         text |-> <<" ","(","g","e","n","e","r","a","t","o","r"," ","\"","t","e","s","t","\"",")">> ],
       \* 4: (generator_version 7.0)
       [ kind |-> "generator_version", value |-> Dec(FALSE, <<"7">>, 0),
         text |-> <<" ","(","g","e","n","e","r","a","t","o","r","_","v","e","r","s","i","o","n"," ",
                    "7",".","0",")">> ],
       \* 5: (symbol "R" (property "Reference" "R" (at 0 0 0)))
       [ kind |-> "symbol", value |-> <<"R">>,
         text |-> <<" ","(","s","y","m","b","o","l"," ","\"","R","\""," ","(","p","r","o","p","e",
                    "r","t","y"," ","\"","R","e","f","e","r","e","n","c","e","\""," ","\"","R","\"",
                    " ","(","a","t"," ","0"," ","0"," ","0",")",")",")">> ],
       \* 6: (symbol "U1" (in_bom yes))
       [ kind |-> "symbol", value |-> <<"U","1">>,
         text |-> <<" ","(","s","y","m","b","o","l"," ","\"","U","1","\""," ","(","i","n","_","b",
                    "o","m"," ","y","e","s",")",")">> ],
       \* 7: (version abc)
       [ kind |-> "bad_version", value |-> <<>>,
         text |-> <<" ","(","v","e","r","s","i","o","n"," ","a","b","c",")">> ],
       \* 8: (symbol "U1" (unknown_key 1))
       [ kind |-> "bad_symbol", value |-> <<>>,
         text |-> <<" ","(","s","y","m","b","o","l"," ","\"","U","1","\""," ","(","u","n","k","n",
                    "o","w","n","_","k","e","y"," ","1",")",")">> ],
       \* 9: (symbol "R" (property "Value" "R" (at 0 0)))
       [ kind |-> "bad_symbol", value |-> <<>>,
         text |-> <<" ","(","s","y","m","b","o","l"," ","\"","R","\""," ","(","p","r","o","p","e",
                    "r","t","y"," ","\"","V","a","l","u","e","\""," ","\"","R","\""," ","(","a","t",
                    " ","0"," ","0",")",")",")">> ],
       \* 10: (bogus 1)
       [ kind |-> "unknown", value |-> <<"b","o","g","u","s">>,
         text |-> <<" ","(","b","o","g","u","s"," ","1",")">> ],
       \* 11: (symbol "R"     with its closing marker missing
       [ kind |-> "open", value |-> <<>>,
         text |-> <<" ","(","s","y","m","b","o","l"," ","\"","R","\"">> ],
       \* 12: )               a surplus closing marker
       [ kind |-> "close", value |-> <<>>,
         text |-> <<" ",")">> ],
       \* 13: (symbol "P" (pin_names))
       [ kind |-> "bad_symbol", value |-> <<>>,
         text |-> <<" ","(","s","y","m","b","o","l"," ","\"","P","\""," ","(","p","i","n","_","n",
                    "a","m","e","s",")",")">> ],
       \* 14: (Version 1)
       [ kind |-> "unknown", value |-> <<"V","e","r","s","i","o","n">>,
         text |-> <<" ","(","V","e","r","s","i","o","n"," ","1",")">> ] >>

LibGoodKinds == {"version", "generator", "generator_version", "symbol"}

RECURSIVE LibChildrenText(_)
LibChildrenText(children) ==
    IF children = <<>> THEN <<>>
    ELSE LibFragments[Head(children)].text \o LibChildrenText(Tail(children))

LibText(children, closed) ==
    <<"(","k","i","c","a","d","_","s","y","m","b","o","l","_","l","i","b">> \o LibChildrenText(children)
        \o (IF closed THEN <<")">> ELSE <<>>)

\* (kicad_symbol_lib (version 20211014) (generator "test") (generator_version 7.0)
\*  (symbol "R" (property "Reference" "R" (at 0 0 0))))
LibExample == <<1, 3, 4, 5>>

LibShapes ==
    {[children |-> c, closed |-> b] :
        c \in SeqsUpTo(1..Len(LibFragments), MaxLibChildren) \cup {LibExample},
        b \in BOOLEAN}

\* the call's argument for a shape: the text, with the shape it was composed from
LibInput(s) ==
    [content |-> LibText(s.children, s.closed), children |-> s.children, closed |-> s.closed]

LibInputs == {LibInput(s) : s \in LibShapes}

InitLib == pc = "start" /\ arg \in LibInputs /\ ret = NoRet

Call_from_file ==
    /\ pc = "start"
    /\ ret' = from_file(arg.content)
    /\ pc' = "done"
    /\ UNCHANGED arg

SpecLib == InitLib /\ [][Call_from_file]_vars

\* the kind and the value of the k-th child the text was composed of
LibChild(k) == LibFragments[arg.children[k]]

\* the value of the last child of a kind, None when there is none
LibLast(kind) ==
    LET at == {k \in 1..Len(arg.children) : LibChild(k).kind = kind}
    IN  IF at = {} THEN None
        ELSE Some(LibChild(CHOOSE k \in at : \A j \in at : j <= k).value)

\* the values of the children of a kind, in input order
LibAll(kind) ==
    LET IsKind(id) == LibFragments[id].kind = kind
        ids == SelectSeq(arg.children, IsKind)
    IN  [k \in 1..Len(ids) |-> LibFragments[ids[k]].value]

LibWellFormed ==
    /\ arg.closed
    /\ \A k \in 1..Len(arg.children) : LibChild(k).kind \in LibGoodKinds

\* C4: on a root form whose children are well-formed version, generator,
\* generator_version and symbol forms, from_file returns a Library whose
\* three scalar fields hold the values of those children (None when the
\* child is absent) and whose symbols are the symbol children, one Symbol
\* each, in input order; the example of the specification gives
\* version 20211014, generator "test", generator_version 7.0 and one Symbol
\* "R" with the single Property Reference / "R" / placement (0,0,0).
C4_FromFileBuildsLibrary ==
    (pc = "done" /\ LibWellFormed) =>
        /\ ret.st = "Ok"
        /\ ret.val.version = LibLast("version")
        /\ ret.val.generator = LibLast("generator")
        /\ ret.val.generator_version = LibLast("generator_version")
        /\ Len(ret.val.symbols) = Len(LibAll("symbol"))
        /\ \A k \in 1..Len(ret.val.symbols) : ret.val.symbols[k].name = LibAll("symbol")[k]
        /\ arg.children = LibExample =>
               ret.val =
                   [ version |-> Some(<<"2","0","2","1","1","0","1","4">>),
                     generator |-> Some(<<"t","e","s","t">>),
                     generator_version |-> Some(Dec(FALSE, <<"7">>, 0)),
                     symbols |->
                         << [ name |-> <<"R">>, pin_names |-> None, exclude_from_sim |-> None,
                              in_bom |-> None, on_board |-> None, sub_symbols |-> <<>>,
                              properties |->
                                  << [ property_type |-> "Reference", value |-> <<"R">>,
                                       id |-> None, location |-> Some(<<Zero, Zero, Zero>>),
                                       effects |-> None ] >> ] >> ]

C4_Witness ==
    /\ pc = "done"
    /\ arg.children = <<6, 1, 5>>
    /\ arg.closed
    /\ ret.st = "Ok"
    /\ Len(ret.val.symbols) = 2
    /\ ret.val.symbols[1].name = <<"U", "1">>

\* s occurs in text
Contains(text, s) ==
    \E i \in 0..(Len(text) - Len(s)) : SubSeq(text, i + 1, i + Len(s)) = s

\* the first child that is not well-formed, 0 when all are
LibFirstFault ==
    LET bad == {k \in 1..Len(arg.children) : LibChild(k).kind \notin LibGoodKinds}
    IN  IF bad = {} THEN 0 ELSE CHOOSE k \in bad : \A j \in bad : k <= j

\* C8: when the value word of a top-level version child is not an unsigned
\* integer, as in (version abc), the parse fails with an error that names
\* the version field, and no Library is returned.
C8_BadVersionErrorNamesField ==
    (/\ pc = "done"
     /\ LibFirstFault > 0
     /\ LibChild(LibFirstFault).kind = "bad_version") =>
        /\ ret.st = "Err"
        /\ Contains(ret.err, kw.version)

\* (kicad_symbol_lib (version abc)) fails with the integer parser's message
C8_Witness ==
    /\ pc = "done"
    /\ arg.children = <<7>>
    /\ arg.closed
    /\ ret.st = "Err"
    /\ ret.err = msg.param_parse \o msg.int_invalid_digit

\* the positions of the log where a parser returned an error
LogErrors(log) == {i \in 1..Len(log) : log[i].ev = "ret" /\ log[i].st = "Err"}

\* C9: once a parser reached during from_file has returned an error, no
\* further parser is called, every enclosing parser returns that error, and
\* from_file returns it: an error, and no Library.
C9_FailFast ==
    pc = "done" =>
        \A i \in LogErrors(ret.log) :
            /\ ret.st = "Err"
            /\ ret.val = <<>>
            /\ \A j \in (i + 1)..Len(ret.log) :
                   ret.log[j].ev = "ret" /\ ret.log[j].st = "Err"
            /\ ret.log[Len(ret.log)].fn = "from_file"

C9_Witness ==
    /\ pc = "done"
    /\ arg.children = <<5, 9, 6>>
    /\ arg.closed
    /\ ret.st = "Err"
    /\ \E i \in LogErrors(ret.log) : ret.log[i].fn = "KiCadLocation"
    /\ Cardinality({i \in 1..Len(ret.log) :
                       ret.log[i].ev = "call" /\ ret.log[i].fn = "KiCadSymbol"}) = 2

\* C10: from_file on a text whose open and close markers do not balance
\* fails with an error; it never returns a Library for such a text.
C10_UnbalancedTextRejected ==
    (pc = "done" /\ ~check_token_vec_healthy(tokenise(arg.content).val)) => ret.st # "Ok"

\* (kicad_symbol_lib (version 20211014) without its closing marker is read
\* as a Library
C10_Witness ==
    /\ pc = "done"
    /\ arg.children = <<1>>
    /\ ~arg.closed
    /\ ~check_token_vec_healthy(tokenise(arg.content).val)
    /\ ret.st = "Ok"
    /\ ret.val.version = Some(LibFragments[1].value)

\* C11: a top-level child of the root form whose keyword is none of
\* version, generator, generator_version, symbol is neither accepted nor
\* skipped: the parse returns no Library, and when the parse reaches that
\* child (the children before it were accepted) the error returned names
\* its keyword.
C11_UnknownTopLevelChildFails ==
    pc = "done" =>
        \A k \in 1..Len(arg.children) :
            (/\ LibChild(k).kind = "unknown"
             /\ LibChild(k).value \notin {kw.version, kw.generator, kw.generator_version,
                                          kw.symbol}
             /\ \A j \in 1..(k - 1) : LibChild(j).kind \notin {"open", "close"}) =>
                /\ ret.st # "Ok"
                /\ ret.val = <<>>
                /\ (\A j \in 1..(k - 1) : LibChild(j).kind \in LibGoodKinds) =>
                       /\ ret.st = "Err"
                       /\ Contains(ret.err, LibChild(k).value)
                       /\ ret.err = msg.lib_property \o LibChild(k).value

C11_Witness ==
    /\ pc = "done"
    /\ arg.children = <<1, 5, 14>>
    /\ arg.closed
    /\ ret.st = "Err"
    /\ Contains(ret.err, <<"V","e","r","s","i","o","n">>)
    /\ Cardinality({i \in 1..Len(ret.log) :
                       ret.log[i].ev = "ret" /\ ret.log[i].fn = "KiCadSymbol"
                       /\ ret.log[i].st = "Ok"}) = 1

(***************************************************************************)
(* SpecTwoRuns: from_file called twice on the same text, one call after    *)
(* the other in the same process.  ret holds the first result while the    *)
(* second call runs, and both once it has returned.                        *)
(***************************************************************************)
TwoRunsInputs == {x \in LibInputs : x.closed}

InitTwoRuns == pc = "start" /\ arg \in TwoRunsInputs /\ ret = NoRet

Call_from_file_first ==
    /\ pc = "start"
    /\ ret' = from_file(arg.content)
    /\ pc' = "again"
    /\ UNCHANGED arg

Call_from_file_second ==
    /\ pc = "again"
    /\ ret' = [first |-> ret, second |-> from_file(arg.content)]
    /\ pc' = "done"
    /\ UNCHANGED arg

NextTwoRuns == Call_from_file_first \/ Call_from_file_second

SpecTwoRuns == InitTwoRuns /\ [][NextTwoRuns]_vars

MaxSymbolChildren == 3

SymbolFragments ==
    << \* 1: (in_bom yes)
       [ kind |-> "good", key |-> kw.in_bom, text |-> <<" ","(","i","n","_","b","o","m"," ","y","e",
                                                        "s",")">> ],
       \* 2: (pin_names (offset 1.016))
       [ kind |-> "good", key |-> kw.pin_names,
         text |-> <<" ","(","p","i","n","_","n","a","m","e","s"," ","(","o","f","f","s","e","t"," ",
                    "1",".","0","1","6",")",")">> ],
       \* 3: (property "Value" "R" (id 1) (at 0 2.54 0))
       [ kind |-> "good", key |-> kw.property,
         text |-> <<" ","(","p","r","o","p","e","r","t","y"," ","\"","V","a","l","u","e","\""," ",
                    "\"","R","\""," ","(","i","d"," ","1",")"," ","(","a","t"," ","0"," ","2",".","5",
                    "4"," ","0",")",")">> ],
       \* 4: (symbol "U1_0_1" (pin passive line))
       [ kind |-> "good", key |-> kw.symbol,
         text |-> <<" ","(","s","y","m","b","o","l"," ","\"","U","1","_","0","_","1","\""," ","(",
                    "p","i","n"," ","p","a","s","s","i","v","e"," ","l","i","n","e",")",")">> ],
       \* 5: (unknown_key 1)
       [ kind |-> "unknown", key |-> <<"u","n","k","n","o","w","n","_","k","e","y">>,
         text |-> <<" ","(","u","n","k","n","o","w","n","_","k","e","y"," ","1",")">> ],
       \* 6: (pin passive line (at 0 0 0))
       [ kind |-> "unknown", key |-> kw.pin,
         text |-> <<" ","(","p","i","n"," ","p","a","s","s","i","v","e"," ","l","i","n","e"," ","(",
                    "a","t"," ","0"," ","0"," ","0",")",")">> ],
       \* 7: (In_Bom yes)
       [ kind |-> "unknown", key |-> <<"I","n","_","B","o","m">>,
         text |-> <<" ","(","I","n","_","B","o","m"," ","y","e","s",")">> ],
       \* 8: (in_bom maybe)
       [ kind |-> "bad", key |-> kw.in_bom, text |-> <<" ","(","i","n","_","b","o","m"," ","m","a",
                                                       "y","b","e",")">> ],
       \* 9: (pin_names)
       [ kind |-> "bad", key |-> kw.pin_names, text |-> <<" ","(","p","i","n","_","n","a","m","e",
                                                          "s",")">> ],
       \* 10: (property "Bogus" "x")
       [ kind |-> "bad", key |-> kw.property,
         text |-> <<" ","(","p","r","o","p","e","r","t","y"," ","\"","B","o","g","u","s","\""," ",
                    "\"","x","\"",")">> ] >>

RECURSIVE SymbolChildrenText(_)
SymbolChildrenText(children) ==
    IF children = <<>> THEN <<>>
    ELSE SymbolFragments[Head(children)].text \o SymbolChildrenText(Tail(children))

SymbolText(children) ==
    <<"(","s","y","m","b","o","l"," ","\"","U","1","\"">> \o SymbolChildrenText(children) \o <<")">>

SymbolShapes == SeqsUpTo(1..Len(SymbolFragments), MaxSymbolChildren)

\* the call's argument for a list of children: the expression, with the list
SymbolInput(c) == [expression |-> tokenise(SymbolText(c)).val, children |-> c]

SymbolInputs == {SymbolInput(c) : c \in SymbolShapes}

InitSymbol == pc = "start" /\ arg \in SymbolInputs /\ ret = NoRet

Call_KiCadSymbol_try_from_expression ==
    /\ pc = "start"
    /\ ret' = KiCadSymbol_try_from_expression(arg.expression)
    /\ pc' = "done"
    /\ UNCHANGED arg

SpecSymbol == InitSymbol /\ [][Call_KiCadSymbol_try_from_expression]_vars

SymbolChild(k) == SymbolFragments[arg.children[k]]

\* C6: a child form of a symbol whose keyword is none of pin_names,
\* exclude_from_sim, in_bom, on_board, property, symbol makes the parse
\* fail: no Symbol is produced, and when the parse reaches that child (the
\* children before it were accepted) the error returned names its keyword;
\* (symbol "U1" (unknown_key 1)) fails naming unknown_key.
C6_UnknownSymbolChildFails ==
    pc = "done" =>
        \A k \in 1..Len(arg.children) :
            (/\ SymbolChild(k).kind = "unknown"
             /\ SymbolChild(k).key \notin {kw.pin_names, kw.exclude_from_sim, kw.in_bom,
                                           kw.on_board, kw.property, kw.symbol}) =>
                /\ ret.st # "Ok"
                /\ ret.val = <<>>
                /\ (\A j \in 1..(k - 1) : SymbolChild(j).kind = "good") =>
                       /\ ret.st = "Err"
                       /\ Contains(ret.err, SymbolChild(k).key)
                       /\ ret.err = msg.symbol_child \o SymbolChild(k).key

C6_Witness ==
    /\ pc = "done"
    /\ arg.children = <<3, 5, 1>>
    /\ ret.st = "Err"
    /\ Contains(ret.err, <<"u","n","k","n","o","w","n","_","k","e","y">>)

(***************************************************************************)
(* SpecSubSymbol: KiCadSubSymbol::try_from_expression applied to the       *)
(* expression of `(symbol "U1_0_1" c1 ... cn)`, the children drawn from    *)
(* SubSymbolFragments.  kind is the child's keyword class ("unknown" for a *)
(* keyword outside polyline, text, pin); ok tells whether the child's own  *)
(* parser accepts the form.                                                *)
(***************************************************************************)
MaxSubSymbolChildren == 3

SubSymbolFragments ==
    << \* 1: (polyline (pts (xy 0 1.27) (xy 2.54 1.27)))
       [ kind |-> "polyline", ok |-> TRUE, key |-> kw.polyline,
         text |-> <<" ","(","p","o","l","y","l","i","n","e"," ","(","p","t","s"," ","(","x","y"," ",
                    "0"," ","1",".","2","7",")"," ","(","x","y"," ","2",".","5","4"," ","1",".","2",
                    "7",")",")",")">> ],
       \* 2: (polyline (pts (xy 1 1)) (fill (type none)))
       [ kind |-> "polyline", ok |-> TRUE, key |-> kw.polyline,
         text |-> <<" ","(","p","o","l","y","l","i","n","e"," ","(","p","t","s"," ","(","x","y"," ",
                    "1"," ","1",")",")"," ","(","f","i","l","l"," ","(","t","y","p","e"," ","n","o",
                    "n","e",")",")",")">> ],
       \* 3: (text "A" (at 0 0 0))
       [ kind |-> "text", ok |-> TRUE, key |-> kw.text,
         text |-> <<" ","(","t","e","x","t"," ","\"","A","\""," ","(","a","t"," ","0"," ","0"," ",
                    "0",")",")">> ],
       \* 4: (text "B" (at 1 2 90))
       [ kind |-> "text", ok |-> TRUE, key |-> kw.text,
         text |-> <<" ","(","t","e","x","t"," ","\"","B","\""," ","(","a","t"," ","1"," ","2"," ",
                    "9","0",")",")">> ],
       \* 5: (pin passive line (length 2.54))
       [ kind |-> "pin", ok |-> TRUE, key |-> kw.pin,
         text |-> <<" ","(","p","i","n"," ","p","a","s","s","i","v","e"," ","l","i","n","e"," ","(",
                    "l","e","n","g","t","h"," ","2",".","5","4",")",")">> ],
       \* 6: (pin input inverted)
       [ kind |-> "pin", ok |-> TRUE, key |-> kw.pin,
         text |-> <<" ","(","p","i","n"," ","i","n","p","u","t"," ","i","n","v","e","r","t","e","d",
                    ")">> ],
       \* 7: (arc 1)
       [ kind |-> "unknown", ok |-> FALSE, key |-> <<"a","r","c">>,
         text |-> <<" ","(","a","r","c"," ","1",")">> ],
       \* 8: (text "A")
       [ kind |-> "text", ok |-> FALSE, key |-> kw.text,
         text |-> <<" ","(","t","e","x","t"," ","\"","A","\"",")">> ] >>

RECURSIVE SubSymbolChildrenText(_)
SubSymbolChildrenText(children) ==
    IF children = <<>> THEN <<>>
    ELSE SubSymbolFragments[Head(children)].text \o SubSymbolChildrenText(Tail(children))

SubSymbolText(children) ==
    <<"(","s","y","m","b","o","l"," ","\"","U","1","_","0","_","1","\"">> \o SubSymbolChildrenText(children) \o <<")">>

SubSymbolShapes == SeqsUpTo(1..Len(SubSymbolFragments), MaxSubSymbolChildren)

\* the call's argument for a list of children: the expression, with the list
SubSymbolInput(c) == [expression |-> tokenise(SubSymbolText(c)).val, children |-> c]

SubSymbolInputs == {SubSymbolInput(c) : c \in SubSymbolShapes}

InitSubSymbol == pc = "start" /\ arg \in SubSymbolInputs /\ ret = NoRet

Call_KiCadSubSymbol_try_from_expression ==
    /\ pc = "start"
    /\ ret' = KiCadSubSymbol_try_from_expression(arg.expression)
    /\ pc' = "done"
    /\ UNCHANGED arg

SpecSubSymbol == InitSubSymbol /\ [][Call_KiCadSubSymbol_try_from_expression]_vars

SubSymbolChild(k) == SubSymbolFragments[arg.children[k]]

\* what the child's own parser makes of fragment f, parsed on its own
SubSymbolChildValue(f) ==
    CASE f.kind = "polyline" -> KiCadPolyline_try_from_expression(tokenise(f.text).val).val
      [] f.kind = "text" -> KiCadText_try_from_expression(tokenise(f.text).val).val
      [] f.kind = "pin" -> KiCadPin_try_from_expression(tokenise(f.text).val).val
      [] OTHER -> <<>>

RECURSIVE SubSymbolOfKind(_, _)
\* the parsed children of one kind, in input order
SubSymbolOfKind(children, kind) ==
    IF children = <<>> THEN <<>>
    ELSE LET f == SubSymbolFragments[Head(children)] IN
         (IF f.kind = kind THEN <<SubSymbolChildValue(f)>> ELSE <<>>)
             \o SubSymbolOfKind(Tail(children), kind)

SubSymbolAllWellFormed ==
    \A k \in 1..Len(arg.children) :
        SubSymbolChild(k).ok /\ SubSymbolChild(k).kind \in {"polyline", "text", "pin"}

\* C13: a sub-symbol `(symbol "Name" c1 ... cn)` whose children are all
\* well-formed polyline, text or pin forms parses, and polylines, texts and
\* pins hold every child of their kind in input order, n values in all.
C13_SubSymbolCollectsChildren ==
    (pc = "done" /\ SubSymbolAllWellFormed) =>
        /\ ret.st = "Ok"
        /\ ret.val.polylines = SubSymbolOfKind(arg.children, "polyline")
        /\ ret.val.texts = SubSymbolOfKind(arg.children, "text")
        /\ ret.val.pins = SubSymbolOfKind(arg.children, "pin")
        /\ Len(ret.val.polylines) + Len(ret.val.texts) + Len(ret.val.pins) = Len(arg.children)

\* (symbol "U1_0_1" (polyline ..) (text "A" ..) (pin ..)): the polyline,
\* the first child, is in no list
C13_Witness ==
    /\ pc = "done"
    /\ arg.children = <<1, 3, 5>>
    /\ ret.st = "Ok"
    /\ ret.val.polylines = <<>>
    /\ Len(ret.val.texts) = 1
    /\ Len(ret.val.pins) = 1

\* C14: in a composite parser other than the Pin's loop (here the
\* sub-symbol), a child form whose keyword is outside the recognised set
\* makes the parse fail with an error, whatever its position among the
\* children; the error is the schema error naming the keyword when the
\* children before it were accepted.
C14_UnknownChildNeverAccepted ==
    pc = "done" =>
        \A k \in 1..Len(arg.children) :
            (/\ SubSymbolChild(k).kind = "unknown"
             /\ SubSymbolChild(k).key \notin {kw.polyline, kw.text, kw.pin}) =>
                /\ ret.st = "Err"
                /\ (\A j \in 1..(k - 1) : SubSymbolChild(j).ok) =>
                       ret.err = msg.sub_symbol_child \o SubSymbolChild(k).key

\* (symbol "U1_0_1" (arc 1) (text "A" (at 0 0 0))): the arc form comes
\* first and the sub-symbol is returned
C14_Witness ==
    /\ pc = "done"
    /\ arg.children = <<7, 3>>
    /\ ret.st = "Ok"
    /\ Len(ret.val.texts) = 1
    /\ ret.val.polylines = <<>>
    /\ ret.val.pins = <<>>

\* the expressions the sub-symbol's dispatch loop has inspected when the call
\* returns: all that the segmenter emitted when the loop ran to its end, at
\* least the first of them when the loop left with an error
SubSymbolInspected ==
    LET subexpressions == subdivide_expression(slice_from(arg.expression, 2))
    IN  IF ret.st = "Ok" \/ subexpressions = <<>> THEN subexpressions
        ELSE SubSeq(subexpressions, 1, 1)

\* C20: every expression that the segmenter emits during a parse and that a
\* dispatch loop then inspects has as many open markers as close markers,
\* an open marker as its first token and a keyword word as its second.
C20_InspectedExpressionsAreForms ==
    pc = "done" =>
        \A k \in 1..Len(SubSymbolInspected) :
            LET e == SubSymbolInspected[k] IN
            /\ Depth(e, Len(e)) = 0
            /\ e[1] = OpenParen
            /\ Len(e) >= 2 /\ IsWord(e[2])

\* (symbol "U1_0_1" (polyline ..) (text "A" ..)): the first expression the
\* loop inspects is `"U1_0_1" ( polyline .. )`, balanced but opening with the
\* name word, its second token the open marker
C20_Witness ==
    /\ pc = "done"
    /\ arg.children = <<1, 3>>
    /\ Len(SubSymbolInspected) = 2
    /\ SubSymbolInspected[1][1] = Word(<<"U","1","_","0","_","1">>)
    /\ SubSymbolInspected[1][2] = OpenParen
    /\ Depth(SubSymbolInspected[1], Len(SubSymbolInspected[1])) = 0
    /\ SubSymbolInspected[2][1] = OpenParen
    /\ SubSymbolInspected[2][2] = Word(kw.text)

(***************************************************************************)
(* SpecProperties: KiCadSymbol::try_from_expression applied to the         *)
(* expression of `(symbol "U1" c1 ... cn)`, the children drawn from        *)
(* PropertyFragments: property forms (key is the property's type, ok tells *)
(* whether the form is well-formed) and one in_bom flag among them.        *)
(***************************************************************************)
MaxProperties == 3

PropertyFragments ==
    << \* 1: (property "Reference" "U" (id 0) (at 0 0 0))
       [ kind |-> "property", ok |-> TRUE, key |-> "Reference", value |-> <<"U">>,
         text |-> <<" ","(","p","r","o","p","e","r","t","y"," ","\"","R","e","f","e","r","e","n",
                    "c","e","\""," ","\"","U","\""," ","(","i","d"," ","0",")"," ","(","a","t"," ",
                    "0"," ","0"," ","0",")",")">> ],
       \* 2: (property "Value" "R" (id 1) (at 0 2.54 0))
       [ kind |-> "property", ok |-> TRUE, key |-> "Value", value |-> <<"R">>,
         text |-> <<" ","(","p","r","o","p","e","r","t","y"," ","\"","V","a","l","u","e","\""," ",
                    "\"","R","\""," ","(","i","d"," ","1",")"," ","(","a","t"," ","0"," ","2",".","5",
                    "4"," ","0",")",")">> ],
       \* 3: (property "Value" "C" (at 1 1 0))
       [ kind |-> "property", ok |-> TRUE, key |-> "Value", value |-> <<"C">>,
         text |-> <<" ","(","p","r","o","p","e","r","t","y"," ","\"","V","a","l","u","e","\""," ",
                    "\"","C","\""," ","(","a","t"," ","1"," ","1"," ","0",")",")">> ],
       \* 4: (in_bom yes)
       [ kind |-> "flag", ok |-> TRUE, key |-> "-", value |-> <<>>,
         text |-> <<" ","(","i","n","_","b","o","m"," ","y","e","s",")">> ],
       \* 5: (property "Value" "R" (at 0 0))
       [ kind |-> "property", ok |-> FALSE, key |-> "Value", value |-> <<"R">>,
         text |-> <<" ","(","p","r","o","p","e","r","t","y"," ","\"","V","a","l","u","e","\""," ",
                    "\"","R","\""," ","(","a","t"," ","0"," ","0",")",")">> ] >>

RECURSIVE PropertiesText(_)
PropertiesText(children) ==
    IF children = <<>> THEN <<>>
    ELSE PropertyFragments[Head(children)].text \o PropertiesText(Tail(children))

PropertiesShapes == SeqsUpTo(1..Len(PropertyFragments), MaxProperties)

\* the call's argument for a list of children: the expression, with the list
PropertiesInput(c) ==
    [expression |-> tokenise(<<"(","s","y","m","b","o","l"," ","\"","U","1","\"">>
                             \o PropertiesText(c) \o <<")">>).val,
     children |-> c]

PropertiesInputs == {PropertiesInput(c) : c \in PropertiesShapes}

InitProperties == pc = "start" /\ arg \in PropertiesInputs /\ ret = NoRet

SpecProperties == InitProperties /\ [][Call_KiCadSymbol_try_from_expression]_vars

\* the property children of the symbol, in input order
PropertyChildren == SelectSeq(arg.children, LAMBDA c : PropertyFragments[c].kind = "property")

\* the KiCadProperty a property fragment stands for
PropertyOf(c) == KiCadProperty_try_from_expression(tokenise(PropertyFragments[c].text).val).val

\* C19: a symbol with k well-formed property children has a properties list
\* of length k holding them in input order; two properties with the same
\* key are both kept, the later one after the earlier one.
C19_PropertiesAppendedInOrder ==
    (pc = "done" /\ \A k \in 1..Len(arg.children) : PropertyFragments[arg.children[k]].ok) =>
        /\ ret.st = "Ok"
        /\ Len(ret.val.properties) = Len(PropertyChildren)
        /\ \A k \in 1..Len(PropertyChildren) :
               /\ ret.val.properties[k] = PropertyOf(PropertyChildren[k])
               /\ ret.val.properties[k].property_type = PropertyFragments[PropertyChildren[k]].key
               /\ ret.val.properties[k].value = PropertyFragments[PropertyChildren[k]].value

\* (symbol "U1" (property "Value" "R" ..) (in_bom yes) (property "Value" "C" ..)):
\* both Value properties are in the list, R before C
C19_Witness ==
    /\ pc = "done"
    /\ arg.children = <<2, 4, 3>>
    /\ ret.st = "Ok"
    /\ Len(ret.val.properties) = 2
    /\ ret.val.properties[1].property_type = "Value"
    /\ ret.val.properties[2].property_type = "Value"
    /\ ret.val.properties[1].value = <<"R">>
    /\ ret.val.properties[2].value = <<"C">>

(***************************************************************************)
(* SpecFlag: KiCadSingleValueProperty::try_from_expression applied to an   *)
(* expression of up to MaxFlagTokens tokens.                               *)
(***************************************************************************)
MaxFlagTokens == 4

FlagWords ==
    {kw.in_bom, kw.on_board, kw.exclude_from_sim, kw.yes, kw.no,
     <<"m","a","y","b","e">>, <<"Y","e","s">>, <<"t","r","u","e">>}

FlagTokens == {OpenParen, CloseParen} \cup {Word(w) : w \in FlagWords}

FlagInputs == SeqsUpTo(FlagTokens, MaxFlagTokens)

InitFlag == pc = "start" /\ arg \in FlagInputs /\ ret = NoRet

Call_KiCadSingleValueProperty_try_from_expression ==
    /\ pc = "start"
    /\ ret' = KiCadSingleValueProperty_try_from_expression(arg)
    /\ pc' = "done"
    /\ UNCHANGED arg

SpecFlag == InitFlag /\ [][Call_KiCadSingleValueProperty_try_from_expression]_vars

FlagVariant(k) ==
    CASE k = kw.in_bom -> "InBom"
      [] k = kw.on_board -> "OnBoard"
      [] OTHER -> "ExcludeFromSim"

\* C7: for a flag form (in_bom, on_board, exclude_from_sim) the value word
\* "yes" parses to true and "no" to false; every other value word is an
\* error and yields no flag.
C7_FlagAcceptsOnlyYesNo ==
    (/\ pc = "done"
     /\ Len(arg) >= 3
     /\ arg[1] = OpenParen
     /\ arg[2].type = "Word"
     /\ arg[2].word \in {kw.in_bom, kw.on_board, kw.exclude_from_sim}
     /\ arg[3].type = "Word") =>
        LET value == arg[3].word IN
        /\ value = <<"y", "e", "s">> =>
               ret.st = "Ok" /\ ret.val = [variant |-> FlagVariant(arg[2].word), value |-> TRUE]
        /\ value = <<"n", "o">> =>
               ret.st = "Ok" /\ ret.val = [variant |-> FlagVariant(arg[2].word), value |-> FALSE]
        /\ value \notin {<<"y", "e", "s">>, <<"n", "o">>} =>
               /\ ret.st = "Err"
               /\ ret.val = <<>>
               /\ ret.err = msg.bool_value \o value

C7_Witness ==
    /\ pc = "done"
    /\ arg = <<OpenParen, Word(kw.on_board), Word(<<"Y","e","s">>), CloseParen>>
    /\ ret.st = "Err"

(***************************************************************************)
(* SpecPin: KiCadPin::try_from_expression applied to the expression of     *)
(* `(pin T P c1 ... cn)`, head and children drawn from PinHeads and        *)
(* PinFragments; PinExample is the pin of the specification's example.     *)
(***************************************************************************)
MaxPinChildren == 2

PinHeads ==
    << [ pin_type |-> "Passive", pin_polarity |-> "Line", text |-> <<"(","p","i","n"," ","p","a",
                                                                     "s","s","i","v","e"," ","l","i",
                                                                     "n","e">> ],
       [ pin_type |-> "Input", pin_polarity |-> "Inverted", text |-> <<"(","p","i","n"," ","i","n",
                                                                       "p","u","t"," ","i","n","v",
                                                                       "e","r","t","e","d">> ] >>

PinFragments ==
    << \* 1: (at 0 0 0)
       [ kind |-> "at", value |-> <<Zero, Zero, Zero>>, text |-> <<" ","(","a","t"," ","0"," ","0",
                                                                   " ","0",")">> ],
       \* 2: (length 2.54)
       [ kind |-> "length", value |-> Dec(FALSE, <<"2","5","4">>, -2), text |-> <<" ","(","l","e","n","g",
                                                                           "t","h"," ","2",".","5",
                                                                           "4",")">> ],
       \* 3: (name "A" (effects))
       [ kind |-> "name", value |-> <<"A">>, effects |-> <<"(","e","f","f","e","c","t","s",")">>,
         text |-> <<" ","(","n","a","m","e"," ","\"","A","\"",
                                                        " ","(","e","f","f","e","c","t","s",")",")">> ],
       \* 4: (number "1" (effects))
       [ kind |-> "number", value |-> <<"1">>, effects |-> <<"(","e","f","f","e","c","t","s",")">>,
         text |-> <<" ","(","n","u","m","b","e","r"," ","\"",
                                                          "1","\""," ","(","e","f","f","e","c","t",
                                                          "s",")",")">> ],
       \* 5: (at 2.54 -1.27 90)
       [ kind |-> "at", value |-> <<Dec(FALSE, <<"2","5","4">>, -2), Dec(TRUE, <<"1","2","7">>, -2),
                                    Dec(FALSE, <<"9">>, 1)>>,
         text |-> <<" ","(","a","t"," ","2",".","5","4"," ","-","1",".","2","7"," ","9","0",")">> ],
       \* 6: (name "B")
       [ kind |-> "name", value |-> <<"B">>, effects |-> <<>>, text |-> <<" ","(","n","a","m","e"," ","\"","B","\"",
                                                        ")">> ],
       \* 7: (number "A12")
       [ kind |-> "number", value |-> <<"A","1","2">>, effects |-> <<>>,
         text |-> <<" ","(","n","u","m","b","e","r",
                                                                  " ","\"","A","1","2","\"",")">> ],
       \* 8: (hide yes)
       [ kind |-> "unknown", value |-> <<>>, text |-> <<" ","(","h","i","d","e"," ","y","e","s",")">> ],
       \* 9: (alternate (at 1) (length x))
       [ kind |-> "unknown", value |-> <<>>, text |-> <<" ","(","a","l","t","e","r","n","a","t","e",
                                                        " ","(","a","t"," ","1",")"," ","(","l","e",
                                                        "n","g","t","h"," ","x",")",")">> ],
       \* 10: (Name "Z")
       [ kind |-> "unknown", value |-> <<>>, text |-> <<" ","(","N","a","m","e"," ","\"","Z","\"",
                                                        ")">> ],
       \* 11: (name "C" (effects (font (size 1.27 1.27)) (hide yes)))
       [ kind |-> "name", value |-> <<"C">>, effects |-> <<"(","e","f","f","e","c","t","s"," ","(",
                                                           "f","o","n","t"," ","(","s","i","z","e",
                                                           " ","1",".","2","7"," ","1",".","2","7",
                                                           ")",")"," ","(","h","i","d","e"," ","y",
                                                           "e","s",")",")">>,
         text |-> <<" ","(","n","a","m","e"," ","\"","C","\""," ","(","e","f","f","e","c","t","s",
                    " ","(","f","o","n","t"," ","(","s","i","z","e"," ","1",".","2","7"," ","1",".",
                    "2","7",")",")"," ","(","h","i","d","e"," ","y","e","s",")",")",")">> ],
       \* 12: (number "2" (effects (font (size 1.27 1.27)) (hide yes)))
       [ kind |-> "number", value |-> <<"2">>, effects |-> <<"(","e","f","f","e","c","t","s"," ",
                                                             "(","f","o","n","t"," ","(","s","i","z",
                                                             "e"," ","1",".","2","7"," ","1",".","2",
                                                             "7",")",")"," ","(","h","i","d","e"," ",
                                                             "y","e","s",")",")">>,
         text |-> <<" ","(","n","u","m","b","e","r"," ","\"","2","\""," ","(","e","f","f","e","c",
                    "t","s"," ","(","f","o","n","t"," ","(","s","i","z","e"," ","1",".","2","7"," ",
                    "1",".","2","7",")",")"," ","(","h","i","d","e"," ","y","e","s",")",")",")">> ] >>

PinExample == <<1, 2, 3, 4>>

RECURSIVE PinChildrenText(_)
PinChildrenText(children) ==
    IF children = <<>> THEN <<>>
    ELSE PinFragments[Head(children)].text \o PinChildrenText(Tail(children))

PinText(head, children) == PinHeads[head].text \o PinChildrenText(children) \o <<")">>

PinShapes == SeqsUpTo(1..Len(PinFragments), MaxPinChildren) \cup {PinExample}

\* the call's argument for a head and a list of children: the expression, with both
PinInput(h, c) == [expression |-> tokenise(PinText(h, c)).val, head |-> h, children |-> c]

PinInputs == {PinInput(h, c) : h \in 1..Len(PinHeads), c \in PinShapes}

InitPin == pc = "start" /\ arg \in PinInputs /\ ret = NoRet

Call_KiCadPin_try_from_expression ==
    /\ pc = "start"
    /\ ret' = KiCadPin_try_from_expression(arg.expression)
    /\ pc' = "done"
    /\ UNCHANGED arg

SpecPin == InitPin /\ [][Call_KiCadPin_try_from_expression]_vars

PinChildrenOf(kind) ==
    {k \in 1..Len(arg.children) : PinFragments[arg.children[k]].kind = kind}

\* the value written by the last child of that kind
PinValue(kind) ==
    LET ks == PinChildrenOf(kind)
    IN  PinFragments[arg.children[CHOOSE k \in ks : \A j \in ks : j <= k]].value

\* C5: a pin form (pin T P (at x y r) (length L) (name N ...) (number M ...))
\* parses to a Pin with type and polarity mapped from T and P, placement
\* (x, y, r), length L, name N and number M, M being the word that follows
\* the number keyword.
C5_PinFieldsFromChildren ==
    pc = "done" =>
        /\ ret.st = "Ok"
        /\ ret.val.pin_type = PinHeads[arg.head].pin_type
        /\ ret.val.pin_polarity = PinHeads[arg.head].pin_polarity
        /\ PinChildrenOf("at") # {} =>
               ret.val.location.some /\ ret.val.location.v = PinValue("at")
        /\ PinChildrenOf("length") # {} =>
               ret.val.length.some /\ ret.val.length.v = PinValue("length")
        /\ PinChildrenOf("name") # {} =>
               ret.val.name.some /\ ret.val.name.v.name = PinValue("name")
        /\ PinChildrenOf("number") # {} =>
               ret.val.number.some /\ ret.val.number.v.number = PinValue("number")

\* the pin of the specification's example parses, its number being the
\* keyword itself and the effects of the number form left unread
C5_Witness ==
    /\ pc = "done"
    /\ arg.head = 1
    /\ arg.children = PinExample
    /\ ret.st = "Ok"
    /\ ret.val.name.v.name = <<"A">>
    /\ ret.val.number.v = [number |-> kw.number, effects |-> None]

\* the known children of the pin, in order
PinKnownChildren(children) ==
    SelectSeq(children, LAMBDA c : PinFragments[c].kind # "unknown")

\* C15: the Pin ignores child forms whose keyword is not name, number, at or
\* length: the parse returns what it returns for the same pin with those
\* children removed (same outcome, same Pin, same calls to the parsers of
\* the children, so the ignored forms' contents are never parsed), and no
\* error comes from them.
C15_PinIgnoresUnknownChildren ==
    pc = "done" =>
        /\ ret = KiCadPin_try_from_expression(
                     tokenise(PinText(arg.head, PinKnownChildren(arg.children))).val)
        /\ ret.st = "Ok"
        /\ ~Contains(ret.err, kw.alternate)

\* (pin passive line (alternate (at 1) (length x)) (at 2.54 -1.27 90)): the
\* malformed at and length inside the alternate form are not parsed
C15_Witness ==
    /\ pc = "done"
    /\ arg.head = 1
    /\ arg.children = <<9, 5>>
    /\ ret.st = "Ok"
    /\ ret.val.location = Some(PinFragments[5].value)
    /\ ret.val.length = None
    /\ Len(SelectSeq(ret.log, LAMBDA e : e.ev = "call")) = 2

(***************************************************************************)
(* SpecLocation: KiCadLocation::try_from_expression applied to the         *)
(* expression `( at w1 ... wn )`, the component words drawn from           *)
(* LocationWords.                                                          *)
(***************************************************************************)
MaxLocationComponents == 4

LocationWords == {<<"0">>, <<"2",".","5","4">>, <<"-","1",".","2","7">>, <<"x">>}

LocationExpression(components) ==
    <<OpenParen, Word(kw.at)>>
        \o [k \in 1..Len(components) |-> Word(components[k])]
        \o <<CloseParen>>

LocationInputs ==
    {[expression |-> LocationExpression(c), components |-> c] :
        c \in SeqsUpTo(LocationWords, MaxLocationComponents)}

InitLocation == pc = "start" /\ arg \in LocationInputs /\ ret = NoRet

Call_KiCadLocation_try_from_expression ==
    /\ pc = "start"
    /\ ret' = KiCadLocation_try_from_expression(arg.expression)
    /\ pc' = "done"
    /\ UNCHANGED arg

SpecLocation == InitLocation /\ [][Call_KiCadLocation_try_from_expression]_vars

LocationNumeric(word) == parse_f32(word).st = "Ok"

\* C16: an `(at ...)` expression is accepted if and only if it has exactly
\* three components between the keyword and the closing marker and all
\* three are numeric; with fewer or more it is rejected with an error.
C16_LocationExactlyThree ==
    pc = "done" =>
        /\ ret.st = "Ok" <=>
               /\ Len(arg.components) = 3
               /\ \A k \in 1..3 : LocationNumeric(arg.components[k])
        /\ Len(arg.components) # 3 => ret.st = "Err"

\* (at 0 2.54 -1.27 0) is accepted, the fourth component unread
C16_Witness ==
    /\ pc = "done"
    /\ arg.components = <<<<"0">>, <<"2",".","5","4">>, <<"-","1",".","2","7">>, <<"0">>>>
    /\ ret.st = "Ok"
    /\ ret.val = <<Zero, Dec(FALSE, <<"2","5","4">>, -2), Dec(TRUE, <<"1","2","7">>, -2)>>

(***************************************************************************)
(* SpecPinNames: KiCadPinNames::try_from_expression applied to the         *)
(* expression of `(pin_names c1 ... cn)`, the children drawn from          *)
(* PinNamesFragments; ok tells whether the child is a valid offset form.   *)
(***************************************************************************)
MaxPinNamesChildren == 3

PinNamesFragments ==
    << \* 1: (offset 1.016)
       [ ok |-> TRUE, value |-> Dec(FALSE, <<"1","0","1","6">>, -3), text |-> <<" ","(","o","f","f",
                                                                                "s","e","t"," ","1",
                                                                                ".","0","1","6",")">> ],
       \* 2: (offset 0)
       [ ok |-> TRUE, value |-> Zero, text |-> <<" ","(","o","f","f","s","e","t"," ","0",")">> ],
       \* 3: (offset x)
       [ ok |-> FALSE, value |-> <<>>, text |-> <<" ","(","o","f","f","s","e","t"," ","x",")">> ],
       \* 4: (offset)
       [ ok |-> FALSE, value |-> <<>>, text |-> <<" ","(","o","f","f","s","e","t",")">> ],
       \* 5: (hide yes)
       [ ok |-> FALSE, value |-> <<>>, text |-> <<" ","(","h","i","d","e"," ","y","e","s",")">> ] >>

RECURSIVE PinNamesChildrenText(_)
PinNamesChildrenText(children) ==
    IF children = <<>> THEN <<>>
    ELSE PinNamesFragments[Head(children)].text \o PinNamesChildrenText(Tail(children))

PinNamesText(children) == <<"(","p","i","n","_","n","a","m","e","s">> \o PinNamesChildrenText(children) \o <<")">>

PinNamesShapes == SeqsUpTo(1..Len(PinNamesFragments), MaxPinNamesChildren)

\* the call's argument for a list of children: the expression, with the list
PinNamesInput(c) == [expression |-> tokenise(PinNamesText(c)).val, children |-> c]

PinNamesInputs == {PinNamesInput(c) : c \in PinNamesShapes}

InitPinNames == pc = "start" /\ arg \in PinNamesInputs /\ ret = NoRet

Call_KiCadPinNames_try_from_expression ==
    /\ pc = "start"
    /\ ret' = KiCadPinNames_try_from_expression(arg.expression)
    /\ pc' = "done"
    /\ UNCHANGED arg

SpecPinNames == InitPinNames /\ [][Call_KiCadPinNames_try_from_expression]_vars

\* C17: `(pin_names ...)` with no child form or with two or more fails with
\* an error value returned to the caller, not with an abnormal termination,
\* and yields no PinNames; with exactly one child that is a valid offset
\* form the PinNames holds that offset.
C17_PinNamesChildCount ==
    pc = "done" =>
        /\ Len(arg.children) # 1 => (ret.st = "Err" /\ ret.val = <<>>)
        /\ ret.st # "Panic"
        /\ (Len(arg.children) = 1 /\ PinNamesFragments[arg.children[1]].ok) =>
               /\ ret.st = "Ok"
               /\ ret.val = [offset |-> PinNamesFragments[arg.children[1]].value]

\* (pin_names (offset 1.016) (offset 0)) ends the program in unimplemented!()
C17_Witness ==
    /\ pc = "done"
    /\ arg.children = <<1, 2>>
    /\ ret.st = "Panic"
    /\ ret.val = <<>>
    /\ ret.err = msg.not_implemented

\* the last child of that kind
PinLast(kind) ==
    LET ks == PinChildrenOf(kind)
    IN  PinFragments[arg.children[CHOOSE k \in ks : \A j \in ks : j <= k]]

\* the effects field a name or number form f stands for: the Effects of its
\* `(effects ...)` child, None when it has none
PinEffects(f) ==
    IF f.effects = <<>> THEN None
    ELSE Some(KiCadEffects_try_from_expression(tokenise(f.effects).val).val)

\* C18: a pin name form and a pin number form with a nested `(effects ...)`
\* child after the string yield a record whose effects field is the parsed
\* Effects (Some), for the name and for the number alike; effects is None
\* only when the form has no effects child.
C18_NameAndNumberEffects ==
    pc = "done" =>
        /\ PinChildrenOf("name") # {} =>
               /\ ret.val.name.some
               /\ ret.val.name.v.effects = PinEffects(PinLast("name"))
        /\ PinChildrenOf("number") # {} =>
               /\ ret.val.number.some
               /\ ret.val.number.v.effects = PinEffects(PinLast("number"))

\* (pin passive line (name "C" (effects (font ..) (hide yes))) (number "2" (effects ..))):
\* the name has its effects, the number has none
C18_Witness ==
    /\ pc = "done"
    /\ arg.head = 1
    /\ arg.children = <<11, 12>>
    /\ ret.st = "Ok"
    /\ ret.val.name.v.effects.some
    /\ ret.val.name.v.effects.v.hide
    /\ ret.val.number.v.effects = None

(***************************************************************************)
(* SpecFont: KiCadFont::try_from_expression applied to the expression of   *)
(* `(font c1 ... cn)`, the children drawn from FontFragments; kind is      *)
(* "size" for a valid size form, "flag" for a form that opens with one of  *)
(* the six style keywords (key), "unknown" for any other keyword and "bad" *)
(* for a size form the size parser rejects.                                *)
(***************************************************************************)
MaxFontChildren == 2

FontFragments ==
    << \* 1: (size 1.27 1.27)
       [ kind |-> "size", key |-> kw.size, text |-> <<" ","(","s","i","z","e"," ","1",".","2","7",
                                                      " ","1",".","2","7",")">> ],
       \* 2: (bold)
       [ kind |-> "flag", key |-> kw.bold, text |-> <<" ","(","b","o","l","d",")">> ],
       \* 3: (bold no)
       [ kind |-> "flag", key |-> kw.bold, text |-> <<" ","(","b","o","l","d"," ","n","o",")">> ],
       \* 4: (italic)
       [ kind |-> "flag", key |-> kw.italic, text |-> <<" ","(","i","t","a","l","i","c",")">> ],
       \* 5: (subscript yes)
       [ kind |-> "flag", key |-> kw.subscript, text |-> <<" ","(","s","u","b","s","c","r","i","p",
                                                           "t"," ","y","e","s",")">> ],
       \* 6: (superscript)
       [ kind |-> "flag", key |-> kw.superscript, text |-> <<" ","(","s","u","p","e","r","s","c",
                                                             "r","i","p","t",")">> ],
       \* 7: (overbar (x))
       [ kind |-> "flag", key |-> kw.overbar, text |-> <<" ","(","o","v","e","r","b","a","r"," ",
                                                         "(","x",")",")">> ],
       \* 8: (underline false)
       [ kind |-> "flag", key |-> kw.underline, text |-> <<" ","(","u","n","d","e","r","l","i","n",
                                                           "e"," ","f","a","l","s","e",")">> ],
       \* 9: (face "Arial")
       [ kind |-> "unknown", key |-> <<"f","a","c","e">>, text |-> <<" ","(","f","a","c","e"," ",
                                                                     "\"","A","r","i","a","l","\"",")">> ],
       \* 10: (size 1.27)
       [ kind |-> "bad", key |-> kw.size, text |-> <<" ","(","s","i","z","e"," ","1",".","2","7",")">> ] >>

\* (font (bold) (italic) (subscript yes) (superscript) (overbar (x)) (underline false)),
\* and the same six children with no size, one flag left out at a time
FontExamples ==
    { <<2, 4, 5, 6, 7, 8>>, <<1, 2, 4, 5, 6, 7, 8>>,
      <<4, 5, 6, 7, 8>>, <<2, 5, 6, 7, 8>>, <<2, 4, 6, 7, 8>>,
      <<2, 4, 5, 7, 8>>, <<2, 4, 5, 6, 8>>, <<2, 4, 5, 6, 7>> }

RECURSIVE FontChildrenText(_)
FontChildrenText(children) ==
    IF children = <<>> THEN <<>>
    ELSE FontFragments[Head(children)].text \o FontChildrenText(Tail(children))

FontText(children) == <<"(","f","o","n","t">> \o FontChildrenText(children) \o <<")">>

FontShapes == SeqsUpTo(1..Len(FontFragments), MaxFontChildren) \cup FontExamples

\* the call's argument for a list of children: the expression, with the list
FontInput(c) == [expression |-> tokenise(FontText(c)).val, children |-> c]

FontInputs == {FontInput(c) : c \in FontShapes}

InitFont == pc = "start" /\ arg \in FontInputs /\ ret = NoRet

Call_KiCadFont_try_from_expression ==
    /\ pc = "start"
    /\ ret' = KiCadFont_try_from_expression(arg.expression)
    /\ pc' = "done"
    /\ UNCHANGED arg

SpecFont == InitFont /\ [][Call_KiCadFont_try_from_expression]_vars

\* a child form that opens with the keyword occurs among the font's children
FontHas(keyword) ==
    \E k \in 1..Len(arg.children) : FontFragments[arg.children[k]].key = keyword

\* every child is a size form the size parser accepts or a style flag
FontAllWellFormed ==
    \A k \in 1..Len(arg.children) : FontFragments[arg.children[k]].kind \in {"size", "flag"}

\* C21: a font whose children are all valid parses, and each of its six style
\* flags (bold, italic, subscript, superscript, overbar, underline) is true
\* exactly when a child form with that keyword occurs among the children,
\* whatever further tokens the child carries, and false when none occurs:
\* so each flag depends on no other flag and not on the size child.
C21_FontFlagsByPresence ==
    (pc = "done" /\ FontAllWellFormed) =>
        /\ ret.st = "Ok"
        /\ ret.val.bold = FontHas(kw.bold)
        /\ ret.val.italic = FontHas(kw.italic)
        /\ ret.val.subscript = FontHas(kw.subscript)
        /\ ret.val.superscript = FontHas(kw.superscript)
        /\ ret.val.overbar = FontHas(kw.overbar)
        /\ ret.val.underline = FontHas(kw.underline)
        /\ ret.val.font_size.some = FontHas(kw.size)

\* (font (bold no) (underline false)): bold and underline are set, the other
\* four flags are not, and there is no size
C21_Witness ==
    /\ pc = "done"
    /\ arg.children = <<3, 8>>
    /\ ret.st = "Ok"
    /\ ret.val.bold /\ ret.val.underline
    /\ ~ret.val.italic /\ ~ret.val.subscript /\ ~ret.val.superscript /\ ~ret.val.overbar
    /\ ~ret.val.font_size.some

(***************************************************************************)
(* SpecText: KiCadText::try_from_expression applied to the expression of   *)
(* `head c1 ... cn)`, the head drawn from TextHeads and the children from  *)
(* TextFragments; kind is "at" or "effects" for a valid child of that      *)
(* keyword, "bad" for an `at` form the location parser rejects and         *)
(* "unknown" for any other keyword; value is the placement of an `at`.     *)
(***************************************************************************)
MaxTextChildren == 2

TextHeads ==
    << \* 1: (text "A"
       [ ok |-> TRUE, string |-> <<"A">>, text |-> <<"(","t","e","x","t"," ","\"","A","\"">> ],
       \* 2: (text
       [ ok |-> FALSE, string |-> <<>>, text |-> <<"(","t","e","x","t">> ] >>

TextFragments ==
    << \* 1: (at 0 0 0)
       [ kind |-> "at", value |-> <<Zero, Zero, Zero>>, text |-> <<" ","(","a","t"," ","0"," ","0",
                                                                   " ","0",")">> ],
       \* 2: (at 2.54 -1.27 0)
       [ kind |-> "at",
         value |-> <<Dec(FALSE, <<"2","5","4">>, -2), Dec(TRUE, <<"1","2","7">>, -2), Zero>>,
         text |-> <<" ","(","a","t"," ","2",".","5","4"," ","-","1",".","2","7"," ","0",")">> ],
       \* 3: (effects (font (size 1.27 1.27)))
       [ kind |-> "effects", value |-> <<>>, text |-> <<" ","(","e","f","f","e","c","t","s"," ","(",
                                                        "f","o","n","t"," ","(","s","i","z","e"," ",
                                                        "1",".","2","7"," ","1",".","2","7",")",")",
                                                        ")">> ],
       \* 4: (effects (hide yes))
       [ kind |-> "effects", value |-> <<>>, text |-> <<" ","(","e","f","f","e","c","t","s"," ","(",
                                                        "h","i","d","e"," ","y","e","s",")",")">> ],
       \* 5: (at 0 0)
       [ kind |-> "bad", value |-> <<>>, text |-> <<" ","(","a","t"," ","0"," ","0",")">> ],
       \* 6: (layer x)
       [ kind |-> "unknown", value |-> <<>>, text |-> <<" ","(","l","a","y","e","r"," ","x",")">> ] >>

RECURSIVE TextChildrenText(_)
TextChildrenText(children) ==
    IF children = <<>> THEN <<>>
    ELSE TextFragments[Head(children)].text \o TextChildrenText(Tail(children))

TextText(head, children) == TextHeads[head].text \o TextChildrenText(children) \o <<")">>

TextShapes == SeqsUpTo(1..Len(TextFragments), MaxTextChildren)

\* the call's argument for a head and a list of children: the expression,
\* with the head and the list
TextInput(h, c) == [expression |-> tokenise(TextText(h, c)).val, head |-> h, children |-> c]

TextInputs == {TextInput(h, c) : h \in 1..Len(TextHeads), c \in TextShapes}

InitText == pc = "start" /\ arg \in TextInputs /\ ret = NoRet

Call_KiCadText_try_from_expression ==
    /\ pc = "start"
    /\ ret' = KiCadText_try_from_expression(arg.expression)
    /\ pc' = "done"
    /\ UNCHANGED arg

SpecText == InitText /\ [][Call_KiCadText_try_from_expression]_vars

\* the positions of the children of that kind
TextChildrenOf(kind) ==
    {k \in 1..Len(arg.children) : TextFragments[arg.children[k]].kind = kind}

\* the last child of that kind
TextLast(kind) ==
    LET ks == TextChildrenOf(kind)
    IN  TextFragments[arg.children[CHOOSE k \in ks : \A j \in ks : j <= k]]

\* C22: a text form with no `at` child is rejected with an error, and when
\* its string and its other children are valid the error is the missing
\* placement; a text form is accepted only if an `at` child was parsed, and
\* the Text then carries the placement of that child.
C22_TextRequiresAt ==
    pc = "done" =>
        /\ ret.st \in {"Ok", "Err"}
        /\ TextChildrenOf("at") = {} => (ret.st = "Err" /\ ret.val = <<>>)
        /\ ( /\ TextChildrenOf("at") = {}
             /\ TextHeads[arg.head].ok
             /\ TextChildrenOf("bad") = {} /\ TextChildrenOf("unknown") = {} ) =>
               ret.err = msg.text_no_location
        /\ ret.st = "Ok" =>
               /\ TextChildrenOf("at") # {}
               /\ ret.val.location = TextLast("at").value

\* (text "A" (effects (font (size 1.27 1.27))) (effects (hide yes))): the
\* string and both children are valid, and the form is rejected
C22_Witness ==
    /\ pc = "done"
    /\ arg.head = 1
    /\ arg.children = <<3, 4>>
    /\ ret.st = "Err"
    /\ ret.err = msg.text_no_location

(***************************************************************************)
(* SpecSkip: each construct parser that runs a child-dispatch loop applied *)
(* to a form of two valid children with text from SkipJunk put between     *)
(* them: junk[k] is the junk in front of child k, junk[3] the junk after   *)
(* the second child (0 for none).  offset is the index from which the      *)
(* parser hands the rest of the expression to the segmenter.               *)
(***************************************************************************)
MaxSkipJunk == 1

SkipJunk ==
    << \* 1: ()
       <<" ","(",")">>,
       \* 2: ((x))
       <<" ","(","(","x",")",")">>,
       \* 3: a stray word
       <<" ","x">> >>

SkipForms ==
    << [ T |-> "KicadSymbolLib", offset |-> 2, head |-> <<"(","k","i","c","a","d","_","s","y","m",
                                                          "b","o","l","_","l","i","b">>,
         children |-> << <<" ","(","v","e","r","s","i","o","n"," ","1",")">>, <<" ","(","g","e","n",
                                                                                "e","r","a","t","o",
                                                                                "r"," ","\"","g","\"",
                                                                                ")">> >> ],
       [ T |-> "KiCadSymbol", offset |-> 3, head |-> <<"(","s","y","m","b","o","l"," ","\"","R","\"">>,
         children |-> << <<" ","(","i","n","_","b","o","m"," ","y","e","s",")">>, <<" ","(","o","n",
                                                                                    "_","b","o","a",
                                                                                    "r","d"," ","y",
                                                                                    "e","s",")">> >> ],
       [ T |-> "KiCadSubSymbol", offset |-> 2, head |-> <<"(","s","y","m","b","o","l"," ","\"","R",
                                                          "_","0","_","1","\"">>,
         children |-> << <<" ","(","t","e","x","t"," ","\"","A","\""," ","(","a","t"," ","0"," ",
                           "0"," ","0",")",")">>, <<
                                                                                                                                                      " ",
                                                                                                                                                      "(",
                                                                                                                                                      "t",
                                                                                                                                                      "e",
                                                                                                                                                      "x",
                                                                                                                                                      "t",
                                                                                                                                                      " ",
                                                                                                                                                      "\"",
                                                                                                                                                      "B",
                                                                                                                                                      "\"",
                                                                                                                                                      " ",
                                                                                                                                                      "(",
                                                                                                                                                      "a",
                                                                                                                                                      "t",
                                                                                                                                                      " ",
                                                                                                                                                      "1",
                                                                                                                                                      " ",
                                                                                                                                                      "1",
                                                                                                                                                      " ",
                                                                                                                                                      "0",
                                                                                                                                                      ")",
                                                                                                                                                      ")">> >> ],
       [ T |-> "KiCadProperty", offset |-> 4, head |-> <<"(","p","r","o","p","e","r","t","y"," ",
                                                         "\"","R","e","f","e","r","e","n","c","e",
                                                         "\""," ","\"","U","\"">>,
         children |-> << <<" ","(","i","d"," ","0",")">>, <<" ","(","a","t"," ","0"," ","0"," ","0",
                                                            ")">> >> ],
       [ T |-> "KiCadEffects", offset |-> 2, head |-> <<"(","e","f","f","e","c","t","s">>,
         children |-> << <<" ","(","f","o","n","t"," ","(","s","i","z","e"," ","1"," ","1",")",")">>, <<
                                                                                                        " ",
                                                                                                        "(",
                                                                                                        "h",
                                                                                                        "i",
                                                                                                        "d",
                                                                                                        "e",
                                                                                                        " ",
                                                                                                        "y",
                                                                                                        "e",
                                                                                                        "s",
                                                                                                        ")">> >> ],
       [ T |-> "KiCadFont", offset |-> 2, head |-> <<"(","f","o","n","t">>,
         children |-> << <<" ","(","s","i","z","e"," ","1"," ","1",")">>, <<" ","(","b","o","l","d",
                                                                            ")">> >> ],
       [ T |-> "KiCadStroke", offset |-> 2, head |-> <<"(","s","t","r","o","k","e">>,
         children |-> << <<" ","(","w","i","d","t","h"," ","0",")">>, <<" ","(","t","y","p","e"," ",
                                                                        "d","e","f","a","u","l","t",
                                                                        ")">> >> ],
       [ T |-> "KiCadFill", offset |-> 2, head |-> <<"(","f","i","l","l">>,
         children |-> << <<" ","(","t","y","p","e"," ","n","o","n","e",")">>, <<" ","(","t","y","p",
                                                                                "e"," ","o","u","t",
                                                                                "l","i","n","e",")">> >> ],
       [ T |-> "KiCadPolylinePts", offset |-> 2, head |-> <<"(","p","t","s">>,
         children |-> << <<" ","(","x","y"," ","0"," ","0",")">>, <<" ","(","x","y"," ","1"," ","1",
                                                                    ")">> >> ],
       [ T |-> "KiCadPolyline", offset |-> 2, head |-> <<"(","p","o","l","y","l","i","n","e">>,
         children |-> << <<" ","(","p","t","s"," ","(","x","y"," ","0"," ","0",")",")">>, <<" ","(",
                                                                                            "f","i",
                                                                                            "l","l",
                                                                                            " ","(",
                                                                                            "t","y",
                                                                                            "p","e",
                                                                                            " ","n",
                                                                                            "o","n",
                                                                                            "e",")",
                                                                                            ")">> >> ],
       [ T |-> "KiCadText", offset |-> 3, head |-> <<"(","t","e","x","t"," ","\"","A","\"">>,
         children |-> << <<" ","(","e","f","f","e","c","t","s"," ","(","h","i","d","e"," ","y","e",
                           "s",")",")">>, <<
                                                                                                                                                " ",
                                                                                                                                                "(",
                                                                                                                                                "a",
                                                                                                                                                "t",
                                                                                                                                                " ",
                                                                                                                                                "0",
                                                                                                                                                " ",
                                                                                                                                                "0",
                                                                                                                                                " ",
                                                                                                                                                "0",
                                                                                                                                                ")">> >> ],
       [ T |-> "KiCadPin", offset |-> 4, head |-> <<"(","p","i","n"," ","p","a","s","s","i","v","e",
                                                    " ","l","i","n","e">>,
         children |-> << <<" ","(","a","t"," ","0"," ","0"," ","0",")">>, <<" ","(","l","e","n","g",
                                                                            "t","h"," ","2",".","5",
                                                                            "4",")">> >> ],
       [ T |-> "KiCadPinName", offset |-> 3, head |-> <<"(","n","a","m","e"," ","\"","A","\"">>,
         children |-> << <<" ","(","e","f","f","e","c","t","s"," ","(","h","i","d","e"," ","y","e",
                           "s",")",")">>, <<
                                                                                                                                                " ",
                                                                                                                                                "(",
                                                                                                                                                "e",
                                                                                                                                                "f",
                                                                                                                                                "f",
                                                                                                                                                "e",
                                                                                                                                                "c",
                                                                                                                                                "t",
                                                                                                                                                "s",
                                                                                                                                                " ",
                                                                                                                                                "(",
                                                                                                                                                "f",
                                                                                                                                                "o",
                                                                                                                                                "n",
                                                                                                                                                "t",
                                                                                                                                                " ",
                                                                                                                                                "(",
                                                                                                                                                "b",
                                                                                                                                                "o",
                                                                                                                                                "l",
                                                                                                                                                "d",
                                                                                                                                                ")",
                                                                                                                                                ")",
                                                                                                                                                ")">> >> ],
       [ T |-> "KiCadPinNumber", offset |-> 2, head |-> <<"(","n","u","m","b","e","r"," ","\"","1",
                                                          "\"">>,
         children |-> << <<" ","(","e","f","f","e","c","t","s"," ","(","h","i","d","e"," ","y","e",
                           "s",")",")">>, <<
                                                                                                                                                " ",
                                                                                                                                                "(",
                                                                                                                                                "e",
                                                                                                                                                "f",
                                                                                                                                                "f",
                                                                                                                                                "e",
                                                                                                                                                "c",
                                                                                                                                                "t",
                                                                                                                                                "s",
                                                                                                                                                " ",
                                                                                                                                                "(",
                                                                                                                                                "f",
                                                                                                                                                "o",
                                                                                                                                                "n",
                                                                                                                                                "t",
                                                                                                                                                " ",
                                                                                                                                                "(",
                                                                                                                                                "b",
                                                                                                                                                "o",
                                                                                                                                                "l",
                                                                                                                                                "d",
                                                                                                                                                ")",
                                                                                                                                                ")",
                                                                                                                                                ")">> >> ] >>

SkipJunkText(j) == IF j = 0 THEN <<>> ELSE SkipJunk[j]

SkipText(f, junk) ==
    SkipForms[f].head \o SkipJunkText(junk[1]) \o SkipForms[f].children[1]
                      \o SkipJunkText(junk[2]) \o SkipForms[f].children[2]
                      \o SkipJunkText(junk[3]) \o <<")">>

\* junk in at most MaxSkipJunk of the three places
SkipPlacements ==
    {junk \in [1..3 -> 0..Len(SkipJunk)] :
         Cardinality({k \in 1..3 : junk[k] # 0}) <= MaxSkipJunk}

\* the call's argument for a form and a placement of junk: the text and its
\* expression, with the form and the placement
SkipInput(f, junk) ==
    [T |-> SkipForms[f].T, content |-> SkipText(f, junk),
     expression |-> tokenise(SkipText(f, junk)).val, form |-> f, junk |-> junk]

SkipInputs == {SkipInput(f, junk) : f \in 1..Len(SkipForms), junk \in SkipPlacements}

InitSkip == pc = "start" /\ arg \in SkipInputs /\ ret = NoRet

Call_try_from_expression ==
    /\ pc = "start"
    /\ arg.T # "KicadSymbolLib"
    /\ ret' = try_from_expression(arg.T, arg.expression)
    /\ pc' = "done"
    /\ UNCHANGED arg

NextSkip ==
    \/ arg.T = "KicadSymbolLib" /\ Call_from_file
    \/ Call_try_from_expression

SpecSkip == InitSkip /\ [][NextSkip]_vars

\* the segments the loop of the form's parser is handed
SkipSegments == subdivide_expression(slice_from(arg.expression, SkipForms[arg.form].offset))

\* a segment whose second token is a word
SkipHasKeyword(segment) == Len(segment) >= 2 /\ segment[2].type = "Word"

RECURSIVE SkipFlatten(_)
SkipFlatten(segments) ==
    IF segments = <<>> THEN <<>> ELSE Head(segments) \o SkipFlatten(Tail(segments))

\* the expression with every segment whose second token is not a word, and
\* every token after the last segment, taken out
SkipClean ==
    SubSeq(arg.expression, 1, SkipForms[arg.form].offset)
        \o SkipFlatten(SelectSeq(SkipSegments, SkipHasKeyword)) \o <<CloseParen>>

\* a text that tokenises to the tokens, every word written as a string
RECURSIVE SkipUntokenise(_)
SkipUntokenise(tokens) ==
    IF Len(tokens) = 0 THEN <<>>
    ELSE IF Len(tokens) = 1
         THEN CASE tokens[1].type = "OpenParen" -> <<" ","(">>
                [] tokens[1].type = "CloseParen" -> <<")">>
                [] OTHER -> <<" ","\"">> \o tokens[1].word \o <<"\"">>
         ELSE SkipUntokenise(SubSeq(tokens, 1, Len(tokens) \div 2))
                  \o SkipUntokenise(SubSeq(tokens, Len(tokens) \div 2 + 1, Len(tokens)))

\* what the parser returns for the expression without the skipped segments
SkipReference ==
    IF arg.T = "KicadSymbolLib" THEN from_file(SkipUntokenise(SkipClean))
    ELSE try_from_expression(arg.T, SkipClean)

\* no stray word stands in front of a child form
SkipNoStrayWord == arg.junk[1] # 3 /\ arg.junk[2] # 3

\* the tokens of the form's child k
SkipChildTokens(k) == tokenise(SkipForms[arg.form].children[k]).val

\* the children with no stray word in front of them
SkipChildrenLeft ==
    (IF arg.junk[1] # 3 THEN <<SkipChildTokens(1)>> ELSE <<>>)
        \o (IF arg.junk[2] # 3 THEN <<SkipChildTokens(2)>> ELSE <<>>)

\* the parsers that hand the form's name or number word to the segmenter
\* with the children
SkipNameInSlice == {"KiCadSubSymbol", "KiCadPinNumber"}

\* C23: in every child-dispatch loop a segment whose second token is not a
\* word is skipped silently: the parser returns what it returns for the
\* expression without those segments, so they raise no error and leave no
\* trace in the result.  `()`, `((x))` and a child form with one stray word
\* in front of it are such segments, and words after the last child are in
\* no segment: the segments with a keyword are the children that have no
\* stray word in front, and with no stray word the form still parses.
C23_SegmentsWithoutKeywordSkipped ==
    pc = "done" =>
        /\ ret = SkipReference
        /\ SkipNoStrayWord => ret.st = "Ok"
        /\ arg.T \notin SkipNameInSlice =>
               SelectSeq(SkipSegments, SkipHasKeyword) = SkipChildrenLeft

\* (font (size 1 1) x (bold)): the segment `x (bold)` is skipped, the font
\* parses and is not bold
C23_Witness ==
    /\ pc = "done"
    /\ arg.T = "KiCadFont"
    /\ arg.junk = <<0, 3, 0>>
    /\ Len(SkipSegments) = 2
    /\ ret.st = "Ok"
    /\ ret.val.font_size.some
    /\ ~ret.val.bold

(***************************************************************************)
(* SpecNest: from_file applied to `(kicad_symbol_lib (symbol "R" c1 ..     *)
(* cn))`, the symbol's children drawn from NestFragments: forms that nest  *)
(* deeply, among them sub-symbols with a `symbol` form among their own     *)
(* children.  kind is "good" for a child the symbol parser accepts,        *)
(* "nested" for a sub-symbol whose children hold a `symbol` form and no    *)
(* other fault, "bad" for a child that holds another fault.                *)
(***************************************************************************)
MaxNestChildren == 2

NestFragments ==
    << \* 1: a property with effects, a font and a size
       [ kind |-> "good",
         text |-> <<" ","(","p","r","o","p","e","r","t","y"," ","\"","R","e","f","e","r","e","n",
                    "c","e","\""," ","\"","U","\""," ","(","i","d"," ","0",")"," ","(","a","t"," ",
                    "0"," ","0"," ","0",")"," ","(","e","f","f","e","c","t","s"," ","(","f","o","n",
                    "t"," ","(","s","i","z","e"," ","1"," ","1",")",")",")",")">> ],
       \* 2: a sub-symbol with a text and a pin whose name has effects, a font and a size
       [ kind |-> "good",
         text |-> <<" ","(","s","y","m","b","o","l"," ","\"","R","_","0","_","1","\""," ","(","t",
                    "e","x","t"," ","\"","A","\""," ","(","a","t"," ","0"," ","0"," ","0",")",")"," ",
                    "(","p","i","n"," ","p","a","s","s","i","v","e"," ","l","i","n","e"," ","(","a",
                    "t"," ","0"," ","0"," ","0",")"," ","(","l","e","n","g","t","h"," ","2",".","5",
                    "4",")"," ","(","n","a","m","e"," ","\"","A","\""," ","(","e","f","f","e","c","t",
                    "s"," ","(","f","o","n","t"," ","(","s","i","z","e"," ","1"," ","1",")",")",")",
                    ")",")",")">> ],
       \* 3: a sub-symbol with a `symbol` form as its second child
       [ kind |-> "nested",
         text |-> <<" ","(","s","y","m","b","o","l"," ","\"","R","_","0","_","1","\""," ","(","t",
                    "e","x","t"," ","\"","A","\""," ","(","a","t"," ","0"," ","0"," ","0",")",")"," ",
                    "(","s","y","m","b","o","l"," ","\"","R","_","0","_","2","\""," ","(","t","e","x",
                    "t"," ","\"","B","\""," ","(","a","t"," ","0"," ","0"," ","0",")",")",")",")">> ],
       \* 4: a sub-symbol with a `symbol` form as its first child, that one
       \* with a `symbol` form of its own
       [ kind |-> "nested",
         text |-> <<" ","(","s","y","m","b","o","l"," ","\"","R","_","0","_","1","\""," ","(","s",
                    "y","m","b","o","l"," ","\"","R","_","0","_","2","\""," ","(","s","y","m","b","o",
                    "l"," ","\"","R","_","0","_","3","\""," ","(","t","e","x","t"," ","\"","B","\"",
                    " ","(","a","t"," ","0"," ","0"," ","0",")",")",")",")",")">> ],
       \* 5: a sub-symbol with a text that has a deep unknown child
       [ kind |-> "bad",
         text |-> <<" ","(","s","y","m","b","o","l"," ","\"","R","_","0","_","1","\""," ","(","t",
                    "e","x","t"," ","\"","A","\""," ","(","a","t"," ","0"," ","0"," ","0",")",")"," ",
                    "(","t","e","x","t"," ","\"","B","\""," ","(","a","t"," ","0"," ","0"," ","0",")",
                    " ","(","x"," ","(","x"," ","(","x"," ","(","x"," ","(","x",")",")",")",")",")",
                    ")",")">> ],
       \* 6: (in_bom yes)
       [ kind |-> "good", text |-> <<" ","(","i","n","_","b","o","m"," ","y","e","s",")">> ],
       \* 7: a deep form with no keyword
       [ kind |-> "good", text |-> <<" ","(","(","(","(","(","(","(","(","x",")",")",")",")",")",
                                     ")",")",")">> ] >>

RECURSIVE NestChildrenText(_)
NestChildrenText(children) ==
    IF children = <<>> THEN <<>>
    ELSE NestFragments[Head(children)].text \o NestChildrenText(Tail(children))

NestText(children) ==
    <<"(","k","i","c","a","d","_","s","y","m","b","o","l","_","l","i","b"," ","(","s","y","m","b",
      "o","l"," ","\"","R","\"">> \o NestChildrenText(children) \o <<
                                                                                                                                                                        ")",
                                                                                                                                                                        ")">>

NestShapes == SeqsUpTo(1..Len(NestFragments), MaxNestChildren)

\* the call's argument for a list of children: the text, with the list
NestInput(c) == [content |-> NestText(c), children |-> c]

NestInputs == {NestInput(c) : c \in NestShapes}

InitNest == pc = "start" /\ arg \in NestInputs /\ ret = NoRet

SpecNest == InitNest /\ [][Call_from_file]_vars

\* the number of calls open after the first i entries of the log
NestDepth(log, i) ==
    Cardinality({k \in 1..i : log[k].ev = "call"})
        - Cardinality({k \in 1..i : log[k].ev = "ret"})

\* the call logged at j has not returned when the entry at i is logged
NestOpen(log, j, i) == \A k \in j..i : NestDepth(log, k) >= NestDepth(log, j)

\* some parser is called while a call of the same parser is open
NestSelfCall(log) ==
    \E i \in 1..Len(log) : \E j \in 1..(i - 1) :
        /\ log[i].ev = "call" /\ log[j].ev = "call"
        /\ log[i].fn = log[j].fn
        /\ NestOpen(log, j, i)

\* the longest chain of calls the construct parsers can make
NestLongestChain ==
    << "from_file", "KiCadSymbol", "KiCadSubSymbol", "KiCadPin", "KiCadPinName",
       "KiCadEffects", "KiCadFont", "KiCadFontSize" >>

\* the first child that is not good, 0 when all are
NestFirstFault ==
    LET bad == {k \in 1..Len(arg.children) : NestFragments[arg.children[k]].kind # "good"}
    IN  IF bad = {} THEN 0 ELSE CHOOSE k \in bad : \A j \in bad : k <= j

\* every call returns, and every parser call made has returned
NestTerminates ==
    pc = "done" =>
        /\ ret.st \in {"Ok", "Err", "Panic"}
        /\ NestDepth(ret.log, Len(ret.log)) = 0
        /\ \A i \in 1..Len(ret.log) : NestDepth(ret.log, i) >= 0

\* the calls open at once are never more than the longest chain, however
\* deep the text nests, and no parser is called while it is open
NestBounded ==
    pc = "done" =>
        /\ \A i \in 1..Len(ret.log) : NestDepth(ret.log, i) <= Len(NestLongestChain)
        /\ ~NestSelfCall(ret.log)

\* a sub-symbol with a `symbol` form among its children is rejected, the
\* error naming `symbol` as the unrecognised child
NestSymbolRejected ==
    (pc = "done" /\ NestFirstFault # 0
        /\ NestFragments[arg.children[NestFirstFault]].kind = "nested") =>
        /\ ret.st = "Err"
        /\ ret.err = msg.sub_symbol_child \o kw.symbol

\* C24: parsing terminates, the nesting of construct-parser calls is bounded
\* by a constant whatever the depth of the text, no construct parser is
\* called while a call of it is open, and a `symbol` form inside a
\* sub-symbol is rejected as an unrecognised child.
C24_BoundedNestingSymbolRejected ==
    NestTerminates /\ NestBounded /\ NestSymbolRejected

\* a library whose sub-symbol opens with a `symbol` form: the form is passed
\* over, no parser is called for it, and the library is returned
C24_Witness ==
    /\ pc = "done"
    /\ arg.children = <<4>>
    /\ ret.st = "Ok"
    /\ ret.val.symbols[1].sub_symbols = <<[polylines |-> <<>>, texts |-> <<>>, pins |-> <<>>]>>
    /\ Len(ret.log) = 6

(***************************************************************************)
(* SpecRepeat: the parsers of the five constructs with single-valued       *)
(* fields applied to a form in which one field's child occurs up to        *)
(* MaxRepeat times.  Every field of RepeatForms has two well-formed        *)
(* variants of its child; occurrence 3 is the second variant with a stray  *)
(* word in front of it, which is not a well-formed child.  The form is the *)
(* head, the first occurrence, the first variant of every other field and  *)
(* then the remaining occurrences.                                         *)
(***************************************************************************)
MaxRepeat == 2

RepeatForms ==
    << [ T |-> "KicadSymbolLib", head |-> <<"(","k","i","c","a","d","_","s","y","m","b","o","l","_",
                                            "l","i","b">>,
         fields |-> << [ name |-> "version", variants |-> << <<" ","(","v","e","r","s","i","o","n",
                                                               " ","1",")">>, <<
                                                                                                                                                                                    " ",
                                                                                                                                                                                    "(",
                                                                                                                                                                                    "v",
                                                                                                                                                                                    "e",
                                                                                                                                                                                    "r",
                                                                                                                                                                                    "s",
                                                                                                                                                                                    "i",
                                                                                                                                                                                    "o",
                                                                                                                                                                                    "n",
                                                                                                                                                                                    " ",
                                                                                                                                                                                    "2",
                                                                                                                                                                                    ")">> >> ],
                       [ name |-> "generator",
                         variants |-> << <<" ","(","g","e","n","e","r","a","t","o","r"," ","\"","a",
                                           "\"",")">>, <<
                                                                                                                                                              " ",
                                                                                                                                                              "(",
                                                                                                                                                              "g",
                                                                                                                                                              "e",
                                                                                                                                                              "n",
                                                                                                                                                              "e",
                                                                                                                                                              "r",
                                                                                                                                                              "a",
                                                                                                                                                              "t",
                                                                                                                                                              "o",
                                                                                                                                                              "r",
                                                                                                                                                              " ",
                                                                                                                                                              "\"",
                                                                                                                                                              "b",
                                                                                                                                                              "\"",
                                                                                                                                                              ")">> >> ],
                       [ name |-> "generator_version",
                         variants |-> << <<" ","(","g","e","n","e","r","a","t","o","r","_","v","e",
                                           "r","s","i","o","n"," ","7",")">>, <<
                                                                                                                                                                                    " ",
                                                                                                                                                                                    "(",
                                                                                                                                                                                    "g",
                                                                                                                                                                                    "e",
                                                                                                                                                                                    "n",
                                                                                                                                                                                    "e",
                                                                                                                                                                                    "r",
                                                                                                                                                                                    "a",
                                                                                                                                                                                    "t",
                                                                                                                                                                                    "o",
                                                                                                                                                                                    "r",
                                                                                                                                                                                    "_",
                                                                                                                                                                                    "v",
                                                                                                                                                                                    "e",
                                                                                                                                                                                    "r",
                                                                                                                                                                                    "s",
                                                                                                                                                                                    "i",
                                                                                                                                                                                    "o",
                                                                                                                                                                                    "n",
                                                                                                                                                                                    " ",
                                                                                                                                                                                    "8",
                                                                                                                                                                                    ")">> >> ] >> ],
       [ T |-> "KiCadSymbol", head |-> <<"(","s","y","m","b","o","l"," ","\"","R","\"">>,
         fields |-> << [ name |-> "pin_names",
                         variants |-> << <<" ","(","p","i","n","_","n","a","m","e","s"," ","(","o",
                                           "f","f","s","e","t"," ","0",")",")">>, <<
                                                                                                                                                                                        " ",
                                                                                                                                                                                        "(",
                                                                                                                                                                                        "p",
                                                                                                                                                                                        "i",
                                                                                                                                                                                        "n",
                                                                                                                                                                                        "_",
                                                                                                                                                                                        "n",
                                                                                                                                                                                        "a",
                                                                                                                                                                                        "m",
                                                                                                                                                                                        "e",
                                                                                                                                                                                        "s",
                                                                                                                                                                                        " ",
                                                                                                                                                                                        "(",
                                                                                                                                                                                        "o",
                                                                                                                                                                                        "f",
                                                                                                                                                                                        "f",
                                                                                                                                                                                        "s",
                                                                                                                                                                                        "e",
                                                                                                                                                                                        "t",
                                                                                                                                                                                        " ",
                                                                                                                                                                                        "1",
                                                                                                                                                                                        ")",
                                                                                                                                                                                        ")">> >> ],
                       [ name |-> "in_bom", variants |-> << <<" ","(","i","n","_","b","o","m"," ",
                                                              "y","e","s",")">>, <<
                                                                                                                                                                                      " ",
                                                                                                                                                                                      "(",
                                                                                                                                                                                      "i",
                                                                                                                                                                                      "n",
                                                                                                                                                                                      "_",
                                                                                                                                                                                      "b",
                                                                                                                                                                                      "o",
                                                                                                                                                                                      "m",
                                                                                                                                                                                      " ",
                                                                                                                                                                                      "n",
                                                                                                                                                                                      "o",
                                                                                                                                                                                      ")">> >> ],
                       [ name |-> "on_board", variants |-> << <<" ","(","o","n","_","b","o","a","r",
                                                                "d"," ","y","e","s",")">>, <<
                                                                                                                                                                                                  " ",
                                                                                                                                                                                                  "(",
                                                                                                                                                                                                  "o",
                                                                                                                                                                                                  "n",
                                                                                                                                                                                                  "_",
                                                                                                                                                                                                  "b",
                                                                                                                                                                                                  "o",
                                                                                                                                                                                                  "a",
                                                                                                                                                                                                  "r",
                                                                                                                                                                                                  "d",
                                                                                                                                                                                                  " ",
                                                                                                                                                                                                  "n",
                                                                                                                                                                                                  "o",
                                                                                                                                                                                                  ")">> >> ],
                       [ name |-> "exclude_from_sim",
                         variants |-> << <<" ","(","e","x","c","l","u","d","e","_","f","r","o","m",
                                           "_","s","i","m"," ","y","e","s",")">>, <<
                                                                                                                                                                                        " ",
                                                                                                                                                                                        "(",
                                                                                                                                                                                        "e",
                                                                                                                                                                                        "x",
                                                                                                                                                                                        "c",
                                                                                                                                                                                        "l",
                                                                                                                                                                                        "u",
                                                                                                                                                                                        "d",
                                                                                                                                                                                        "e",
                                                                                                                                                                                        "_",
                                                                                                                                                                                        "f",
                                                                                                                                                                                        "r",
                                                                                                                                                                                        "o",
                                                                                                                                                                                        "m",
                                                                                                                                                                                        "_",
                                                                                                                                                                                        "s",
                                                                                                                                                                                        "i",
                                                                                                                                                                                        "m",
                                                                                                                                                                                        " ",
                                                                                                                                                                                        "n",
                                                                                                                                                                                        "o",
                                                                                                                                                                                        ")">> >> ] >> ],
       [ T |-> "KiCadProperty", head |-> <<"(","p","r","o","p","e","r","t","y"," ","\"","R","e","f",
                                           "e","r","e","n","c","e","\""," ","\"","U","\"">>,
         fields |-> << [ name |-> "id", variants |-> << <<" ","(","i","d"," ","0",")">>, <<" ","(",
                                                                                           "i","d",
                                                                                           " ","1",")">> >> ],
                       [ name |-> "location", variants |-> << <<" ","(","a","t"," ","0"," ","0"," ",
                                                                "0",")">>, <<
                                                                                                                                                                                  " ",
                                                                                                                                                                                  "(",
                                                                                                                                                                                  "a",
                                                                                                                                                                                  "t",
                                                                                                                                                                                  " ",
                                                                                                                                                                                  "1",
                                                                                                                                                                                  " ",
                                                                                                                                                                                  "1",
                                                                                                                                                                                  " ",
                                                                                                                                                                                  "0",
                                                                                                                                                                                  ")">> >> ],
                       [ name |-> "effects",
                         variants |-> << <<" ","(","e","f","f","e","c","t","s"," ","(","h","i","d",
                                           "e"," ","y","e","s",")",")">>, <<
                                                                                                                                                                                " ",
                                                                                                                                                                                "(",
                                                                                                                                                                                "e",
                                                                                                                                                                                "f",
                                                                                                                                                                                "f",
                                                                                                                                                                                "e",
                                                                                                                                                                                "c",
                                                                                                                                                                                "t",
                                                                                                                                                                                "s",
                                                                                                                                                                                " ",
                                                                                                                                                                                "(",
                                                                                                                                                                                "f",
                                                                                                                                                                                "o",
                                                                                                                                                                                "n",
                                                                                                                                                                                "t",
                                                                                                                                                                                " ",
                                                                                                                                                                                "(",
                                                                                                                                                                                "b",
                                                                                                                                                                                "o",
                                                                                                                                                                                "l",
                                                                                                                                                                                "d",
                                                                                                                                                                                ")",
                                                                                                                                                                                ")",
                                                                                                                                                                                ")">> >> ] >> ],
       [ T |-> "KiCadPolyline", head |-> <<"(","p","o","l","y","l","i","n","e">>,
         fields |-> << [ name |-> "stroke",
                         variants |-> << <<" ","(","s","t","r","o","k","e"," ","(","w","i","d","t",
                                           "h"," ","0",")",")">>, <<
                                                                                                                                                                        " ",
                                                                                                                                                                        "(",
                                                                                                                                                                        "s",
                                                                                                                                                                        "t",
                                                                                                                                                                        "r",
                                                                                                                                                                        "o",
                                                                                                                                                                        "k",
                                                                                                                                                                        "e",
                                                                                                                                                                        " ",
                                                                                                                                                                        "(",
                                                                                                                                                                        "w",
                                                                                                                                                                        "i",
                                                                                                                                                                        "d",
                                                                                                                                                                        "t",
                                                                                                                                                                        "h",
                                                                                                                                                                        " ",
                                                                                                                                                                        "1",
                                                                                                                                                                        ")",
                                                                                                                                                                        ")">> >> ],
                       [ name |-> "fill",
                         variants |-> << <<" ","(","f","i","l","l"," ","(","t","y","p","e"," ","n",
                                           "o","n","e",")",")">>, <<
                                                                                                                                                                        " ",
                                                                                                                                                                        "(",
                                                                                                                                                                        "f",
                                                                                                                                                                        "i",
                                                                                                                                                                        "l",
                                                                                                                                                                        "l",
                                                                                                                                                                        " ",
                                                                                                                                                                        "(",
                                                                                                                                                                        "t",
                                                                                                                                                                        "y",
                                                                                                                                                                        "p",
                                                                                                                                                                        "e",
                                                                                                                                                                        " ",
                                                                                                                                                                        "o",
                                                                                                                                                                        "u",
                                                                                                                                                                        "t",
                                                                                                                                                                        "l",
                                                                                                                                                                        "i",
                                                                                                                                                                        "n",
                                                                                                                                                                        "e",
                                                                                                                                                                        ")",
                                                                                                                                                                        ")">> >> ],
                       [ name |-> "pts",
                         variants |-> << <<" ","(","p","t","s"," ","(","x","y"," ","0"," ","0",")",
                                           ")">>, <<
                                                                                                                                                        " ",
                                                                                                                                                        "(",
                                                                                                                                                        "p",
                                                                                                                                                        "t",
                                                                                                                                                        "s",
                                                                                                                                                        " ",
                                                                                                                                                        "(",
                                                                                                                                                        "x",
                                                                                                                                                        "y",
                                                                                                                                                        " ",
                                                                                                                                                        "1",
                                                                                                                                                        " ",
                                                                                                                                                        "1",
                                                                                                                                                        ")",
                                                                                                                                                        " ",
                                                                                                                                                        "(",
                                                                                                                                                        "x",
                                                                                                                                                        "y",
                                                                                                                                                        " ",
                                                                                                                                                        "0",
                                                                                                                                                        " ",
                                                                                                                                                        "0",
                                                                                                                                                        ")",
                                                                                                                                                        ")">> >> ] >> ],
       [ T |-> "KiCadPin", head |-> <<"(","p","i","n"," ","p","a","s","s","i","v","e"," ","l","i",
                                      "n","e">>,
         fields |-> << [ name |-> "location", variants |-> << <<" ","(","a","t"," ","0"," ","0"," ",
                                                                "0",")">>, <<
                                                                                                                                                                                  " ",
                                                                                                                                                                                  "(",
                                                                                                                                                                                  "a",
                                                                                                                                                                                  "t",
                                                                                                                                                                                  " ",
                                                                                                                                                                                  "1",
                                                                                                                                                                                  " ",
                                                                                                                                                                                  "1",
                                                                                                                                                                                  " ",
                                                                                                                                                                                  "0",
                                                                                                                                                                                  ")">> >> ],
                       [ name |-> "length", variants |-> << <<" ","(","l","e","n","g","t","h"," ",
                                                              "1",")">>, <<
                                                                                                                                                                              " ",
                                                                                                                                                                              "(",
                                                                                                                                                                              "l",
                                                                                                                                                                              "e",
                                                                                                                                                                              "n",
                                                                                                                                                                              "g",
                                                                                                                                                                              "t",
                                                                                                                                                                              "h",
                                                                                                                                                                              " ",
                                                                                                                                                                              "2",
                                                                                                                                                                              ")">> >> ],
                       [ name |-> "name", variants |-> << <<" ","(","n","a","m","e"," ","\"","A",
                                                            "\"",")">>, <<
                                                                                                                                                                            " ",
                                                                                                                                                                            "(",
                                                                                                                                                                            "n",
                                                                                                                                                                            "a",
                                                                                                                                                                            "m",
                                                                                                                                                                            "e",
                                                                                                                                                                            " ",
                                                                                                                                                                            "\"",
                                                                                                                                                                            "B",
                                                                                                                                                                            "\"",
                                                                                                                                                                            ")">> >> ],
                       [ name |-> "number",
                         variants |-> << <<" ","(","n","u","m","b","e","r"," ","\"","1","\"",")">>,
                                         <<" ","(","n","u","m","b","e","r"," ","\"","2","\""," ",
                                           "(","x",")"," ","(","e","f","f","e","c","t","s"," ","(",
                                           "h","i","d","e"," ","y","e","s",")",")",")">> >> ] >> ] >>

\* the text of occurrence o of field f of form p
RepeatOccurrence(p, f, o) ==
    IF o = 3 THEN <<" ","x">> \o RepeatForms[p].fields[f].variants[2]
    ELSE RepeatForms[p].fields[f].variants[o]

RECURSIVE RepeatOccurrences(_, _, _)
RepeatOccurrences(p, f, s) ==
    IF s = <<>> THEN <<>>
    ELSE RepeatOccurrence(p, f, Head(s)) \o RepeatOccurrences(p, f, Tail(s))

\* the first variant of every field from g on, field f left out
RECURSIVE RepeatOthers(_, _, _)
RepeatOthers(p, f, g) ==
    IF g > Len(RepeatForms[p].fields) THEN <<>>
    ELSE (IF g = f THEN <<>> ELSE RepeatForms[p].fields[g].variants[1])
             \o RepeatOthers(p, f, g + 1)

RepeatText(p, f, s) ==
    RepeatForms[p].head \o RepeatOccurrence(p, f, Head(s)) \o RepeatOthers(p, f, 1)
                        \o RepeatOccurrences(p, f, Tail(s)) \o <<")">>

\* the occurrences of the repeated child: one to MaxRepeat of them, the
\* first one well-formed
RepeatShapes == {s \in SeqsUpTo(1..3, MaxRepeat) : s # <<>> /\ s[1] # 3}

\* the call's argument: the text and its expression, with the form, the
\* field and the occurrences
RepeatInput(p, f, s) ==
    [T |-> RepeatForms[p].T, content |-> RepeatText(p, f, s),
     expression |-> tokenise(RepeatText(p, f, s)).val, form |-> p, field |-> f, occurrences |-> s]

RepeatInputs ==
    UNION { {RepeatInput(p, f, s) : f \in 1..Len(RepeatForms[p].fields), s \in RepeatShapes} :
            p \in 1..Len(RepeatForms) }

InitRepeat == pc = "start" /\ arg \in RepeatInputs /\ ret = NoRet

SpecRepeat == InitRepeat /\ [][NextSkip]_vars

\* the last well-formed occurrence
RepeatLast ==
    LET ks == {k \in 1..Len(arg.occurrences) : arg.occurrences[k] # 3}
    IN  arg.occurrences[CHOOSE k \in ks : \A j \in ks : j <= k]

\* what the parser returns for the form of the same field with variant v as
\* its only occurrence
RepeatAlone(v) ==
    IF arg.T = "KicadSymbolLib" THEN from_file(RepeatText(arg.form, arg.field, <<v>>))
    ELSE try_from_expression(arg.T, tokenise(RepeatText(arg.form, arg.field, <<v>>)).val)

\* C25: a child that fills a single-valued field may occur more than once
\* under its parent and that is no error: the parser returns the value it
\* returns when only the last well-formed occurrence is there, so the field
\* holds that occurrence's value (which is not the other variant's) and
\* every other field is what it was; a later `pts` child replaces the point
\* list of an earlier one.
C25_RepeatedChildLastWins ==
    pc = "done" =>
        /\ ret.st = "Ok"
        /\ ret.val = RepeatAlone(RepeatLast).val
        /\ ret.val[RepeatForms[arg.form].fields[arg.field].name]
               # RepeatAlone(3 - RepeatLast).val[RepeatForms[arg.form].fields[arg.field].name]

\* (polyline (pts (xy 0 0)) (stroke (width 0)) (fill (type none)) (pts (xy 1 1) (xy 0 0))):
\* the polyline has the two points of the second pts child
C25_Witness ==
    /\ pc = "done"
    /\ arg.T = "KiCadPolyline"
    /\ arg.field = 3
    /\ arg.occurrences = <<1, 2>>
    /\ ret.st = "Ok"
    /\ ret.val.pts = << [x |-> Dec(FALSE, <<"1">>, 0), y |-> Dec(FALSE, <<"1">>, 0)],
                        [x |-> Zero, y |-> Zero] >>

====
